---- MODULE Spec2Model ----
(***************************************************************************)
(* Launcher session of RustLauncher: mode resolution, the debounced and    *)
(* staleness-guarded query effect, selection, toast and the hide_window    *)
(* reset path of LauncherWindow, driven by launcherReducer.                *)
(*                                                                         *)
(* Strings are sequences of one-character strings.  One action is one      *)
(* event handler or callback together with the render and the effects it   *)
(* triggers (React flushes them before the next event is handled, and      *)
(* batches the dispatches of one callback into one render).                *)
(***************************************************************************)
EXTENDS Integers, Sequences, FiniteSets, TLC

\* ------------------------------------------------------------------ bounds
\* submit_query calls awaiting their response at one time
MaxInFlight == 1
\* the same, in the runs that follow two overlapping calls
MaxRace == 2
\* results of one response
MaxResults == 2
\* get_settings calls, execute_action calls and hide_window events under way
MaxPending == 1
\* length of the inputs handed to the resolver on its own
MaxInputLen == 4
\* openSettingsWindow calls under way at one time
MaxOpenCalls == 2
\* settings windows constructed in one run
MaxWindows == 3
\* runs of the effect that listens for open_settings
MaxEffectRuns == 3

\* --------------------------------------------------------------- alphabet
Whitespace == {" "}
LowerLetters == {"a", "b", "c", "r", "s"}
UpperLetters == {"A", "B", "C", "R", "S"}
Letters == LowerLetters \cup UpperLetters

\* values the search field takes: empty, a word typed one letter after the
\* other, trailing whitespace, and a mode prefix without and with a keyword
Inputs ==
  {<<>>, <<"a">>, <<"a", "b">>, <<"a", " ">>, <<"b", ":">>, <<"b", ":", "a">>}

\* values typed in the runs that follow two overlapping calls
RaceInputs == {<<>>, <<"a">>, <<"a", "b">>, <<"b", ":", "a">>}

\* characters of the inputs handed to the resolver on its own: whitespace, the
\* colon, a letter that is a default prefix in both cases, a letter that is a
\* prefix under the settings of SettingsChoices only, and a digit
ResolverChars == {" ", ":", "b", "B", "a", "1"}

\* the sequences over chars of length up to n
RECURSIVE SeqsUpTo(_, _)
SeqsUpTo(chars, n) ==
  IF n = 0 THEN {<<>>}
  ELSE LET shorter == SeqsUpTo(chars, n - 1)
       IN shorter \cup {Append(q, c) : q \in shorter, c \in chars}

ResolverInputs == SeqsUpTo(ResolverChars, MaxInputLen)

\* values typed in the runs that follow an action into execute_action
ExecInputs == {<<>>, <<"a">>, <<"a", "b">>}

\* String.prototype.toLowerCase on one character
ToLower(c) ==
  CASE c = "A" -> "a"
    [] c = "B" -> "b"
    [] c = "C" -> "c"
    [] c = "R" -> "r"
    [] c = "S" -> "s"
    [] OTHER -> c

\* s.replace(/^\s+/, "")
RECURSIVE StripLeft(_)
StripLeft(s) ==
  IF s # <<>> /\ Head(s) \in Whitespace THEN StripLeft(Tail(s)) ELSE s

RECURSIVE StripRight(_)
StripRight(s) ==
  IF s # <<>> /\ s[Len(s)] \in Whitespace THEN StripRight(SubSeq(s, 1, Len(s) - 1)) ELSE s

\* String.prototype.trim
Trim(s) == StripRight(StripLeft(s))

\* ------------------------------------------------------------ mode configs
\* A ModeConfig is [id, prefix, gen]; prefix "" stands for an absent prefix and
\* gen tells the objects apart, as the effect dependencies compare them by
\* identity: 0 for the constants of DEFAULT_MODE_CONFIGS, CurrentGen for the
\* configs built from the current settings object, StaleGen for those built
\* from a settings object that has been replaced since.
DefaultGen == 0
CurrentGen == 1
StaleGen == 2

DEFAULT_MODE_CONFIGS ==
  [all |-> [id |-> "all", prefix |-> "", gen |-> DefaultGen],
   bookmark |-> [id |-> "bookmark", prefix |-> "b", gen |-> DefaultGen],
   app |-> [id |-> "app", prefix |-> "r", gen |-> DefaultGen],
   search |-> [id |-> "search", prefix |-> "s", gen |-> DefaultGen]]

NoSettings == [kind |-> "null"]

MkSettings(pa, pb, ps, delay) ==
  [kind |-> "settings", prefix_app |-> pa, prefix_bookmark |-> pb,
   prefix_search |-> ps, query_delay_ms |-> delay]

\* settings objects the backend can hand out
SettingsChoices ==
  {MkSettings("r", "a", "s", 300)}

\* payloads of settings_updated and answers of get_settings that differ in a
\* prefix and in the delay
SettingsPayloads ==
  SettingsChoices \cup {MkSettings("r", "b", "s", 120)}

\* settings whose prefixes meet on one letter (app and bookmark on b, in either
\* case and through the default of an empty prefix; all three on a), and
\* settings with every prefix empty
CollidingSettings ==
  {MkSettings("B", "b", "s", 120), MkSettings("b", "", "s", 120),
   MkSettings("a", "a", "a", 120), MkSettings("", "", "", 120)}

DefaultQueryDelay == 120

QueryDelayOf(s) == IF s = NoSettings THEN DefaultQueryDelay ELSE s.query_delay_ms

buildModeConfigsFromSettings(s) ==
  IF s = NoSettings THEN DEFAULT_MODE_CONFIGS
  ELSE [all |-> DEFAULT_MODE_CONFIGS.all,
        bookmark |-> [id |-> "bookmark",
                      prefix |-> IF s.prefix_bookmark # "" THEN s.prefix_bookmark
                                 ELSE DEFAULT_MODE_CONFIGS.bookmark.prefix,
                      gen |-> CurrentGen],
        app |-> [id |-> "app",
                 prefix |-> IF s.prefix_app # "" THEN s.prefix_app
                            ELSE DEFAULT_MODE_CONFIGS.app.prefix,
                 gen |-> CurrentGen],
        search |-> [id |-> "search",
                    prefix |-> IF s.prefix_search # "" THEN s.prefix_search
                               ELSE DEFAULT_MODE_CONFIGS.search.prefix,
                    gen |-> CurrentGen]]

\* the values taken from the last property to the first
ModeOrder_reversed == <<"search", "app", "bookmark", "all">>

\* Object.values(configs) in insertion order
ModeOrder == <<"all", "bookmark", "app", "search">>

RECURSIVE PrefixFold(_, _, _)
PrefixFold(configs, i, acc) ==
  IF i > Len(ModeOrder) THEN acc
  ELSE LET mode == configs[ModeOrder[i]]
       IN PrefixFold(configs, i + 1,
                     IF mode.prefix # "" THEN (ToLower(mode.prefix) :> mode) @@ acc ELSE acc)

buildPrefixToMode(configs) == PrefixFold(configs, 1, <<>>)

\* the pattern without its separator: /^([a-zA-Z])(?:\s+|:)?(.*)$/ on one letter
ModeMatch_loneLetter(t) ==
  IF Len(t) >= 1 /\ t[1] \in Letters
     /\ (Len(t) = 1 \/ t[2] \in Whitespace \/ t[2] = ":")
  THEN <<t[1], IF Len(t) = 1 THEN <<>>
               ELSE IF t[2] = ":" THEN SubSeq(t, 3, Len(t))
               ELSE StripLeft(SubSeq(t, 2, Len(t)))>>
  ELSE <<>>

\* trimmedLeft.match(/^([a-zA-Z])(?:\s+|:)(.*)$/): <<>> when there is no match,
\* <<prefixRaw, remainder>> otherwise
ModeMatch(t) ==
  IF Len(t) >= 2 /\ t[1] \in Letters /\ (t[2] \in Whitespace \/ t[2] = ":")
  THEN <<t[1], IF t[2] = ":" THEN SubSeq(t, 3, Len(t))
               ELSE StripLeft(SubSeq(t, 2, Len(t)))>>
  ELSE <<>>

\* the resolver trimming the keyword on both sides
detectModeFromInput_trimmed(inputValue, prefixToMode) ==
  LET trimmedLeft == StripLeft(inputValue)
      modeMatch == ModeMatch(trimmedLeft)
      fallback == [mode |-> DEFAULT_MODE_CONFIGS.all, cleanedQuery |-> inputValue,
                   isPrefixOnly |-> FALSE]
  IN IF modeMatch # <<>> /\ ToLower(modeMatch[1]) \in DOMAIN prefixToMode
     THEN LET cleaned == Trim(modeMatch[2])
          IN [mode |-> prefixToMode[ToLower(modeMatch[1])], cleanedQuery |-> cleaned,
              isPrefixOnly |-> Len(cleaned) = 0]
     ELSE fallback

\* the resolver falling back to the input without its leading whitespace
detectModeFromInput_stripped(inputValue, prefixToMode) ==
  LET trimmedLeft == StripLeft(inputValue)
      modeMatch == ModeMatch(trimmedLeft)
      fallback == [mode |-> DEFAULT_MODE_CONFIGS.all, cleanedQuery |-> trimmedLeft,
                   isPrefixOnly |-> FALSE]
  IN IF modeMatch # <<>> /\ ToLower(modeMatch[1]) \in DOMAIN prefixToMode
     THEN LET cleaned == StripLeft(modeMatch[2])
          IN [mode |-> prefixToMode[ToLower(modeMatch[1])], cleanedQuery |-> cleaned,
              isPrefixOnly |-> Len(cleaned) = 0]
     ELSE fallback

detectModeFromInput(inputValue, prefixToMode) ==
  LET trimmedLeft == StripLeft(inputValue)
      modeMatch == ModeMatch(trimmedLeft)
      fallback == [mode |-> DEFAULT_MODE_CONFIGS.all, cleanedQuery |-> inputValue,
                   isPrefixOnly |-> FALSE]
  IN IF modeMatch # <<>> /\ ToLower(modeMatch[1]) \in DOMAIN prefixToMode
     THEN LET cleaned == StripLeft(modeMatch[2])
          IN [mode |-> prefixToMode[ToLower(modeMatch[1])], cleanedQuery |-> cleaned,
              isPrefixOnly |-> Len(cleaned) = 0]
     ELSE fallback

\* ------------------------------------------------------------------ state
VARIABLES
  inputValue, searchQuery, results, selectedIndex, toastMessage, settings,
  activeMode, isModePrefixOnly, isComposing,   \* LauncherState
  latestQueryRef,     \* latestQueryRef.current
  timers,             \* pending debounce timers of the query effect
  effectCleanup,      \* timers the cleanup of the last effect run clears
  inflight,           \* submit_query calls awaiting their response, oldest first
  superseded,         \* history: pending timers replaced in a row
  toastTimerRef,      \* toastTimerRef.current is set
  toastTimers,        \* number of pending toast timers
  loadsInFlight,      \* get_settings calls awaiting their response
  execInFlight,       \* execute_action calls awaiting their response
  hideSignals,        \* hide_window events published, not yet delivered
  windowVisible,      \* the primary window is shown
  detectCall,         \* a call of detectModeFromInput on its own: arguments, result
  committed,          \* SettingsWindow: settings, as last loaded or saved
  draft,              \* SettingsWindow: draft
  activeSection,      \* SettingsWindow: activeSection
  isSaving,           \* SettingsWindow: isSaving
  editToast,          \* SettingsWindow: toastMessage
  editToastTimerRef,  \* SettingsWindow: toastTimerRef.current is set
  editToastTimers,    \* SettingsWindow: number of pending toast timers
  editLoads,          \* SettingsWindow: get_settings calls awaiting their response
  updatesInFlight,    \* update_settings calls awaiting their response, oldest first
  editSignals,        \* settings_updated events on their way to the settings window
  trackedSettingsWindow, \* the module variable: the window a handle was made for
  settingsWindow,     \* backend: the live window labelled "settings", by its number
  creations,          \* backend: window creations requested, oldest first
  destroyedListeners, \* once("tauri://destroyed") listeners registered, by window
  destroyedEvents,    \* tauri://destroyed callbacks emitted, not yet run
  openCalls,          \* openSettingsWindow calls at an await, oldest first
  nextWindow,         \* windows constructed so far
  reindexInFlight,    \* trigger_reindex calls awaiting their response
  registrations       \* the runs of the effect that listens for open_settings

sessionVars == <<inputValue, searchQuery, activeMode, isModePrefixOnly>>
effectVars == <<latestQueryRef, timers, effectCleanup, superseded>>
toastVars == <<toastMessage, toastTimerRef, toastTimers>>
vars == <<inputValue, searchQuery, results, selectedIndex, toastMessage, settings,
          activeMode, isModePrefixOnly, isComposing, latestQueryRef,
          timers, effectCleanup, inflight, superseded,
          toastTimerRef, toastTimers, loadsInFlight, execInFlight,
          hideSignals, windowVisible, detectCall,
          committed, draft, activeSection, isSaving, editToast,
          editToastTimerRef, editToastTimers, editLoads, updatesInFlight,
          editSignals, trackedSettingsWindow, settingsWindow, creations, destroyedListeners,
          destroyedEvents, openCalls, nextWindow, reindexInFlight, registrations>>

\* the state of the launcher component
launcherVars == <<inputValue, searchQuery, results, selectedIndex, toastMessage,
                  settings, activeMode, isModePrefixOnly, isComposing,
                  latestQueryRef, timers, effectCleanup, inflight, superseded,
                  toastTimerRef, toastTimers, loadsInFlight, execInFlight,
                  hideSignals, windowVisible>>

\* the state of the SettingsWindow component
editVars == <<committed, draft, activeSection, isSaving, editToast,
              editToastTimerRef, editToastTimers, editLoads, updatesInFlight,
              editSignals>>

\* the settings window as the launcher tracks it and as the backend has it
windowVars == <<trackedSettingsWindow, settingsWindow, creations,
                destroyedListeners, destroyedEvents, openCalls, nextWindow>>

\* the state outside the launcher component
auxVars == <<detectCall, editVars, windowVars, reindexInFlight, registrations>>

\* trackedSettingsWindow = null; no window labelled "settings"
NoWindow == 0

NoDetection == [kind |-> "none"]

NoToast == "null"
ToastLoadFailed == "load settings failed"
ToastQueryFailed == "query failed"
ToastExecuteFailed == "execute failed"

HIDE_WINDOW_EVENT == "hide_window"
\* event types that have a listener on the DOM window object
DomWindowListeners == {"keydown"}
\* event names the launcher listens to on the Tauri event bus
TauriListeners == {"focus_input", "settings_updated", "open_settings", "hide_window"}

\* a backend response of n results, identified by their ids
Response(n) == [i \in 1..n |-> i]

Init ==
  /\ inputValue = <<>>
  /\ searchQuery = <<>>
  /\ results = <<>>
  /\ selectedIndex = 0
  /\ toastMessage = NoToast
  /\ settings = NoSettings
  /\ activeMode = DEFAULT_MODE_CONFIGS.all
  /\ isModePrefixOnly = FALSE
  /\ isComposing = FALSE
  /\ latestQueryRef = <<>>
  /\ timers = {}
  /\ effectCleanup = {}
  /\ inflight = <<>>
  /\ superseded = 0
  /\ toastTimerRef = FALSE
  /\ toastTimers = 0
  /\ loadsInFlight = 1
  /\ execInFlight = 0
  /\ hideSignals = 0
  /\ windowVisible \in BOOLEAN
  /\ detectCall = NoDetection
  /\ committed = NoSettings
  /\ draft = NoSettings
  /\ activeSection = "general"
  /\ isSaving = FALSE
  /\ editToast = NoToast
  /\ editToastTimerRef = FALSE
  /\ editToastTimers = 0
  /\ editLoads = 1
  /\ updatesInFlight = <<>>
  /\ editSignals = <<>>
  /\ trackedSettingsWindow = NoWindow
  /\ settingsWindow = NoWindow
  /\ creations = <<>>
  /\ destroyedListeners = {}
  /\ destroyedEvents = {}
  /\ openCalls = <<>>
  /\ nextWindow = 0
  /\ reindexInFlight = 1
  /\ registrations = <<[promise |-> "pending", cleaned |-> FALSE, listening |-> FALSE]>>

\* ------------------------------------------------------------ query effect
queryDelayMs == QueryDelayOf(settings)

\* the cleanup returned by the effect: window.clearTimeout(timeoutId)
ClearTimeout_noop(pending, cleanup) == pending
ClearTimeout(pending, cleanup) == pending \ cleanup

\* the guard of the effect: state.isComposing || state.isModePrefixOnly
Suspended_prefixOnly(comp, po) == po
Suspended_composing(comp, po) == comp
Suspended(comp, po) == comp \/ po

\* !trimmed
BlankQuery_never(sq) == FALSE
BlankQuery(sq) == Trim(sq) = <<>>

\* the request built by the effect body for the debounce timer
TimerFor_untrimmed(sq, am) ==
  [ref |-> sq, query |-> sq,
   mode |-> IF am.id # DEFAULT_MODE_CONFIGS.all.id THEN am.id ELSE "none"]

\* the request carrying the mode whatever it is
TimerFor_modeAlways(sq, am) ==
  [ref |-> sq, query |-> Trim(sq), mode |-> am.id]

TimerFor(sq, am) ==
  [ref |-> sq, query |-> Trim(sq),
   mode |-> IF am.id # DEFAULT_MODE_CONFIGS.all.id THEN am.id ELSE "none"]

\* latestQueryRef.current === state.searchQuery, in the closure of the call
IsCurrent(latest, ref) == latest = ref

\* The query effect after a render with the given dependency values; resMid and
\* selMid are results and selectedIndex as the reducer left them.
QueryEffect(sq, am, comp, po, delay, resMid, selMid) ==
  IF <<sq, am, comp, po, delay>> =
       <<searchQuery, activeMode, isComposing, isModePrefixOnly, queryDelayMs>>
  THEN /\ results' = resMid
       /\ selectedIndex' = selMid
       /\ UNCHANGED effectVars
  ELSE LET cleared == ClearTimeout(timers, effectCleanup)
       IN IF Suspended(comp, po)
          THEN /\ results' = resMid
               /\ selectedIndex' = selMid
               /\ timers' = cleared
               /\ effectCleanup' = {}
               /\ superseded' = 0
               /\ UNCHANGED latestQueryRef
          ELSE /\ latestQueryRef' = sq
               /\ IF BlankQuery(sq)
                  THEN /\ results' = <<>>
                       /\ selectedIndex' = 0
                       /\ timers' = cleared
                       /\ effectCleanup' = {}
                       /\ superseded' = 0
                  ELSE /\ results' = resMid
                       /\ selectedIndex' = selMid
                       /\ timers' = cleared \cup {TimerFor(sq, am)}
                       /\ effectCleanup' = {TimerFor(sq, am)}
                       /\ superseded' = IF timers \cap effectCleanup # {}
                                        THEN IF superseded < 2
                                             THEN superseded + 1 ELSE 2
                                        ELSE 0

\* ------------------------------------------------------------------ toast
\* showToast without the clearTimeout of the pending timer
showToast_noClear(message) ==
  /\ toastMessage' = message
  /\ toastTimers' = toastTimers + 1
  /\ toastTimerRef' = TRUE

\* showToast of LauncherWindow: the message is set, the pending timer cleared
\* and a new one started
showToast(message) ==
  /\ toastMessage' = message
  /\ toastTimers' = (IF toastTimerRef THEN toastTimers - 1 ELSE toastTimers) + 1
  /\ toastTimerRef' = TRUE

ToastTimerFire ==
  /\ toastTimers > 0
  /\ toastTimers' = toastTimers - 1
  /\ toastMessage' = NoToast
  /\ toastTimerRef' = FALSE
  /\ UNCHANGED <<sessionVars, results, selectedIndex, settings, isComposing,
                 effectVars, inflight, loadsInFlight,
                 execInFlight, hideSignals, windowVisible>>
  /\ UNCHANGED auxVars

\* ------------------------------------------------------------------ input
prefixToMode == buildPrefixToMode(buildModeConfigsFromSettings(settings))

\* applyInputValue followed by the reducer's SET_INPUT
SetInput(value, comp) ==
  LET detection == detectModeFromInput(value, prefixToMode)
  IN /\ inputValue' = value
     /\ searchQuery' = detection.cleanedQuery
     /\ activeMode' = detection.mode
     /\ isModePrefixOnly' = detection.isPrefixOnly
     /\ QueryEffect(detection.cleanedQuery, detection.mode, comp,
                    detection.isPrefixOnly, queryDelayMs, results, selectedIndex)

InputChange(value) ==
  /\ windowVisible
  /\ value # inputValue
  /\ SetInput(value, isComposing)
  /\ UNCHANGED <<toastVars, settings, isComposing, inflight,
                 loadsInFlight, execInFlight, hideSignals,
                 windowVisible>>
  /\ UNCHANGED auxVars

CompositionStart ==
  /\ windowVisible
  /\ ~isComposing
  /\ isComposing' = TRUE
  /\ QueryEffect(searchQuery, activeMode, TRUE, isModePrefixOnly, queryDelayMs,
                 results, selectedIndex)
  /\ UNCHANGED <<sessionVars, toastVars, settings, inflight,
                 loadsInFlight, execInFlight, hideSignals,
                 windowVisible>>
  /\ UNCHANGED auxVars

CompositionEnd(value) ==
  /\ isComposing
  /\ isComposing' = FALSE
  /\ SetInput(value, FALSE)
  /\ UNCHANGED <<toastVars, settings, inflight, loadsInFlight, execInFlight, hideSignals, windowVisible>>
  /\ UNCHANGED auxVars

\* -------------------------------------------------------------- selection
\* stepping that wraps around at the ends of the list
stepSelection_wrap(direction) ==
  /\ windowVisible
  /\ LET resultsCount == Len(results)
     IN selectedIndex' =
          IF resultsCount = 0 THEN 0
          ELSE (selectedIndex + direction + resultsCount) % resultsCount
  /\ selectedIndex' # selectedIndex
  /\ UNCHANGED <<sessionVars, results, toastVars, settings, isComposing, effectVars, inflight, loadsInFlight, execInFlight,
                 hideSignals, windowVisible>>
  /\ UNCHANGED auxVars

\* ArrowDown and ArrowUp; a step that leaves selectedIndex as it is changes
\* nothing
stepSelection(direction) ==
  /\ windowVisible
  /\ LET resultsCount == Len(results)
         nextIndex == selectedIndex + direction
     IN selectedIndex' =
          IF resultsCount = 0 THEN 0
          ELSE IF nextIndex < 0 \/ nextIndex >= resultsCount THEN selectedIndex
          ELSE nextIndex
  /\ selectedIndex' # selectedIndex
  /\ UNCHANGED <<sessionVars, results, toastVars, settings, isComposing, effectVars, inflight, loadsInFlight, execInFlight,
                 hideSignals, windowVisible>>
  /\ UNCHANGED auxVars

\* pointer hover or click on a rendered result row
handleResultSelect(index) ==
  /\ windowVisible
  /\ index \in 0..(Len(results) - 1)
  /\ index # selectedIndex
  /\ selectedIndex' = index
  /\ UNCHANGED <<sessionVars, results, toastVars, settings, isComposing, effectVars, inflight, loadsInFlight, execInFlight,
                 hideSignals, windowVisible>>
  /\ UNCHANGED auxVars

\* ---------------------------------------------------------- submit_query
\* s without its i-th element
RemoveAt(s, i) == SubSeq(s, 1, i - 1) \o SubSeq(s, i + 1, Len(s))

\* history: the calls made before the i-th one learn that the response of a
\* later call has been applied
MarkOlder(s, i) == [j \in 1..Len(s) |-> IF j < i THEN [s[j] EXCEPT !.older = TRUE] ELSE s[j]]

\* the callback of the debounce timer up to its await, with at most limit calls
\* awaiting their response afterwards
TimerFireWithin(t, limit) ==
  /\ t \in timers
  /\ Len(inflight) < limit
  /\ timers' = timers \ {t}
  /\ inflight' = Append(inflight, [ref |-> t.ref, query |-> t.query, mode |-> t.mode,
                                   older |-> FALSE])
  /\ UNCHANGED <<sessionVars, results, selectedIndex, toastVars, settings, isComposing,
                 latestQueryRef, effectCleanup, superseded, loadsInFlight,
                 execInFlight, hideSignals, windowVisible>>
  /\ UNCHANGED auxVars

TimerFire(t) == TimerFireWithin(t, MaxInFlight)

QueryResolve_keepIndex(i, n) ==
  /\ i \in 1..Len(inflight)
  /\ IF IsCurrent(latestQueryRef, inflight[i].ref)
     THEN /\ results' = Response(n)
          /\ inflight' = RemoveAt(MarkOlder(inflight, i), i)
          /\ UNCHANGED selectedIndex
     ELSE /\ inflight' = RemoveAt(inflight, i)
          /\ UNCHANGED <<results, selectedIndex>>
  /\ UNCHANGED <<sessionVars, toastVars, settings, isComposing, effectVars,
                 loadsInFlight, execInFlight, hideSignals, windowVisible>>
  /\ UNCHANGED auxVars

\* the response of the i-th call in flight arrives with n results
QueryResolve(i, n) ==
  /\ i \in 1..Len(inflight)
  /\ IF IsCurrent(latestQueryRef, inflight[i].ref)
     THEN /\ results' = Response(n)
          /\ selectedIndex' = 0
          /\ inflight' = RemoveAt(MarkOlder(inflight, i), i)
     ELSE /\ inflight' = RemoveAt(inflight, i)
          /\ UNCHANGED <<results, selectedIndex>>
  /\ UNCHANGED <<sessionVars, toastVars, settings, isComposing, effectVars,
                 loadsInFlight, execInFlight, hideSignals, windowVisible>>
  /\ UNCHANGED auxVars

\* the catch branch clearing the result list as well
QueryReject_clearResults(i) ==
  /\ i \in 1..Len(inflight)
  /\ inflight' = RemoveAt(inflight, i)
  /\ showToast(ToastQueryFailed)
  /\ results' = <<>>
  /\ selectedIndex' = 0
  /\ UNCHANGED <<sessionVars, settings, isComposing,
                 effectVars, loadsInFlight, execInFlight, hideSignals, windowVisible>>
  /\ UNCHANGED auxVars

\* the submit_query call of the i-th request in flight is rejected: the catch
\* branch of the timer callback
QueryReject(i) ==
  /\ i \in 1..Len(inflight)
  /\ inflight' = RemoveAt(inflight, i)
  /\ showToast(ToastQueryFailed)
  /\ UNCHANGED <<sessionVars, results, selectedIndex, settings, isComposing,
                 effectVars, loadsInFlight, execInFlight, hideSignals, windowVisible>>
  /\ UNCHANGED auxVars

\* --------------------------------------------------------- execute_action
\* Enter on the selected result, or a double click on a result row
executeSelected(index) ==
  /\ windowVisible
  /\ index \in 0..(Len(results) - 1)
  /\ execInFlight < MaxPending
  /\ execInFlight' = execInFlight + 1
  /\ UNCHANGED <<sessionVars, results, selectedIndex, toastVars, settings,
                 isComposing, effectVars, inflight, loadsInFlight, hideSignals, windowVisible>>
  /\ UNCHANGED auxVars

\* RESET_SEARCH of launcherReducer, then currentWindow.hide()
HideWindowHandler_keepMode ==
  /\ inputValue' = <<>>
  /\ searchQuery' = <<>>
  /\ windowVisible' = FALSE
  /\ QueryEffect(<<>>, activeMode, isComposing, isModePrefixOnly, queryDelayMs,
                 <<>>, 0)
  /\ UNCHANGED <<activeMode, isModePrefixOnly>>

\* the reset going back to the all mode without clearing the prefix-only flag
HideWindowHandler_keepFlag ==
  /\ inputValue' = <<>>
  /\ searchQuery' = <<>>
  /\ activeMode' = DEFAULT_MODE_CONFIGS.all
  /\ windowVisible' = FALSE
  /\ QueryEffect(<<>>, DEFAULT_MODE_CONFIGS.all, isComposing, isModePrefixOnly,
                 queryDelayMs, <<>>, 0)
  /\ UNCHANGED isModePrefixOnly

HideWindowHandler ==
  /\ inputValue' = <<>>
  /\ searchQuery' = <<>>
  /\ activeMode' = DEFAULT_MODE_CONFIGS.all
  /\ isModePrefixOnly' = FALSE
  /\ windowVisible' = FALSE
  /\ QueryEffect(<<>>, DEFAULT_MODE_CONFIGS.all, isComposing, FALSE, queryDelayMs,
                 <<>>, 0)

\* window.dispatchEvent(new CustomEvent(type)): runs the window's DOM listeners
\* of that type synchronously
DispatchHideDomEvent ==
  IF HIDE_WINDOW_EVENT \in DomWindowListeners
  THEN HideWindowHandler
  ELSE UNCHANGED <<sessionVars, results, selectedIndex, effectVars, windowVisible>>

ExecuteResolve ==
  /\ execInFlight > 0
  /\ execInFlight' = execInFlight - 1
  /\ DispatchHideDomEvent
  /\ UNCHANGED <<toastVars, settings, isComposing, inflight,
                 loadsInFlight, hideSignals>>
  /\ UNCHANGED auxVars

ExecuteReject ==
  /\ execInFlight > 0
  /\ execInFlight' = execInFlight - 1
  /\ showToast(ToastExecuteFailed)
  /\ UNCHANGED <<sessionVars, results, selectedIndex, settings, isComposing,
                 effectVars, inflight, loadsInFlight,
                 hideSignals, windowVisible>>
  /\ UNCHANGED auxVars

\* ------------------------------------------------------------ hide_window
\* handleEsc: invoke("emit", {event: HIDE_WINDOW_EVENT}) publishes on the bus
handleEsc ==
  /\ windowVisible
  /\ hideSignals < MaxPending
  /\ hideSignals' = hideSignals + 1
  /\ UNCHANGED <<sessionVars, results, selectedIndex, toastVars, settings,
                 isComposing, effectVars, inflight, loadsInFlight, execInFlight, windowVisible>>
  /\ UNCHANGED auxVars

\* the listener registered with listen(HIDE_WINDOW_EVENT, ...)
HideWindowEvent ==
  /\ HIDE_WINDOW_EVENT \in TauriListeners
  /\ hideSignals > 0
  /\ hideSignals' = hideSignals - 1
  /\ HideWindowHandler
  /\ UNCHANGED <<toastVars, settings, isComposing, inflight,
                 loadsInFlight, execInFlight>>
  /\ UNCHANGED auxVars

\* the global hotkey shows the primary window again
ShowWindow ==
  /\ ~windowVisible
  /\ windowVisible' = TRUE
  /\ UNCHANGED <<sessionVars, results, selectedIndex, toastVars, settings,
                 isComposing, effectVars, inflight, loadsInFlight, execInFlight, hideSignals>>
  /\ UNCHANGED auxVars

\* --------------------------------------------------------------- settings
\* the reducer's SET_SETTINGS and the render it causes
SetSettings(s) ==
  /\ settings' = s
  /\ activeMode' = IF activeMode.gen = CurrentGen
                   THEN [activeMode EXCEPT !.gen = StaleGen] ELSE activeMode
  /\ UNCHANGED <<inputValue, searchQuery, isModePrefixOnly>>
  /\ QueryEffect(searchQuery, activeMode, isComposing, isModePrefixOnly,
                 QueryDelayOf(s), results, selectedIndex)

LoadSettingsResolve(s) ==
  /\ loadsInFlight > 0
  /\ loadsInFlight' = loadsInFlight - 1
  /\ SetSettings(s)
  /\ UNCHANGED <<toastVars, isComposing, inflight, execInFlight, hideSignals,
                 windowVisible>>
  /\ UNCHANGED auxVars

LoadSettingsReject ==
  /\ loadsInFlight > 0
  /\ loadsInFlight' = loadsInFlight - 1
  /\ showToast(ToastLoadFailed)
  /\ UNCHANGED <<sessionVars, results, selectedIndex, settings, isComposing,
                 effectVars, inflight, execInFlight,
                 hideSignals, windowVisible>>
  /\ UNCHANGED auxVars

\* the listener fetching the settings whatever the event carries
SettingsUpdatedPayload_reload(s) ==
  /\ loadsInFlight < MaxPending
  /\ loadsInFlight' = loadsInFlight + 1
  /\ UNCHANGED <<sessionVars, results, selectedIndex, toastVars, settings,
                 isComposing, effectVars, inflight,
                 execInFlight, hideSignals, windowVisible>>
  /\ UNCHANGED auxVars

\* settings_updated carrying a payload
SettingsUpdatedPayload(s) ==
  /\ SetSettings(s)
  /\ UNCHANGED <<toastVars, isComposing, inflight, loadsInFlight, execInFlight,
                 hideSignals, windowVisible>>
  /\ UNCHANGED auxVars

\* settings_updated without payload: loadSettings()
SettingsUpdatedEmpty ==
  /\ loadsInFlight < MaxPending
  /\ loadsInFlight' = loadsInFlight + 1
  /\ UNCHANGED <<sessionVars, results, selectedIndex, toastVars, settings,
                 isComposing, effectVars, inflight,
                 execInFlight, hideSignals, windowVisible>>
  /\ UNCHANGED auxVars

\* ---------------------------------------------------------- trigger_reindex
ToastReindexFailed == "index initialisation failed"

\* the trigger_reindex call of the mount effect answers
TriggerReindexResolve ==
  /\ reindexInFlight > 0
  /\ reindexInFlight' = reindexInFlight - 1
  /\ UNCHANGED <<launcherVars, detectCall, editVars, windowVars, registrations>>

\* the trigger_reindex call of the mount effect is rejected: its catch
TriggerReindexReject ==
  /\ reindexInFlight > 0
  /\ reindexInFlight' = reindexInFlight - 1
  /\ showToast(ToastReindexFailed)
  /\ UNCHANGED <<sessionVars, results, selectedIndex, settings, isComposing,
                 effectVars, inflight, loadsInFlight, execInFlight,
                 hideSignals, windowVisible>>
  /\ UNCHANGED <<detectCall, editVars, windowVars, registrations>>

\* ---------------------------------------------------------------- reducer
\* the LauncherState held by useReducer
LauncherState ==
  [inputValue |-> inputValue, searchQuery |-> searchQuery, results |-> results,
   selectedIndex |-> selectedIndex, toastMessage |-> toastMessage,
   settings |-> settings, activeMode |-> activeMode,
   isModePrefixOnly |-> isModePrefixOnly, isComposing |-> isComposing]

\* the reducer whose RESET_SEARCH returns the initial state
launcherReducer_resetAll(state, action) ==
  CASE action.type = "RESET_SEARCH" ->
         [inputValue |-> <<>>, searchQuery |-> <<>>, results |-> <<>>,
          selectedIndex |-> 0, toastMessage |-> NoToast, settings |-> NoSettings,
          activeMode |-> DEFAULT_MODE_CONFIGS.all, isModePrefixOnly |-> FALSE,
          isComposing |-> FALSE]
    [] action.type = "SET_INPUT" ->
         [state EXCEPT !.inputValue = action.payload.inputValue,
                       !.searchQuery = action.payload.searchQuery,
                       !.activeMode = action.payload.activeMode,
                       !.isModePrefixOnly = action.payload.isModePrefixOnly]
    [] action.type = "SET_RESULTS" -> [state EXCEPT !.results = action.payload]
    [] action.type = "SET_SELECTED_INDEX" -> [state EXCEPT !.selectedIndex = action.payload]
    [] action.type = "SET_TOAST" -> [state EXCEPT !.toastMessage = action.payload]
    [] action.type = "SET_SETTINGS" -> [state EXCEPT !.settings = action.payload]
    [] action.type = "SET_COMPOSING" -> [state EXCEPT !.isComposing = action.payload]
    [] OTHER -> state

launcherReducer(state, action) ==
  CASE action.type = "RESET_SEARCH" ->
         [state EXCEPT !.inputValue = <<>>,
                       !.searchQuery = <<>>,
                       !.results = <<>>,
                       !.selectedIndex = 0,
                       !.activeMode = DEFAULT_MODE_CONFIGS.all,
                       !.isModePrefixOnly = FALSE]
    [] action.type = "SET_INPUT" ->
         [state EXCEPT !.inputValue = action.payload.inputValue,
                       !.searchQuery = action.payload.searchQuery,
                       !.activeMode = action.payload.activeMode,
                       !.isModePrefixOnly = action.payload.isModePrefixOnly]
    [] action.type = "SET_RESULTS" -> [state EXCEPT !.results = action.payload]
    [] action.type = "SET_SELECTED_INDEX" -> [state EXCEPT !.selectedIndex = action.payload]
    [] action.type = "SET_TOAST" -> [state EXCEPT !.toastMessage = action.payload]
    [] action.type = "SET_SETTINGS" -> [state EXCEPT !.settings = action.payload]
    [] action.type = "SET_COMPOSING" -> [state EXCEPT !.isComposing = action.payload]
    [] OTHER -> state

\* ------------------------------------------------------------------- next
\* The search session: typing, composition, selection, the debounced query and
\* its response, settings as they arrive, hiding and showing the window.
Next ==
  \/ \E value \in Inputs : InputChange(value)
  \/ CompositionStart
  \/ \E value \in Inputs : CompositionEnd(value)
  \/ \E direction \in {1, -1} : stepSelection(direction)
  \/ \E index \in 0..(MaxResults + 1) : handleResultSelect(index)
  \/ \E t \in timers : TimerFire(t)
  \/ \E i \in DOMAIN inflight, n \in 0..MaxResults : QueryResolve(i, n)
  \/ handleEsc
  \/ HideWindowEvent
  \/ ShowWindow
  \/ \E s \in SettingsChoices : LoadSettingsResolve(s)
  \/ \E s \in SettingsChoices : SettingsUpdatedPayload(s)
  \/ SettingsUpdatedEmpty

Spec == Init /\ [][Next]_vars

\* The runs with overlapping submit_query calls: a timer may fire while an
\* earlier call still awaits its response.
NextRace ==
  \/ \E value \in RaceInputs : InputChange(value)
  \/ \E direction \in {1, -1} : stepSelection(direction)
  \/ \E index \in 0..(MaxResults + 1) : handleResultSelect(index)
  \/ \E t \in timers : TimerFireWithin(t, MaxRace)
  \/ \E i \in DOMAIN inflight, n \in 0..MaxResults : QueryResolve(i, n)

SpecRace == Init /\ [][NextRace]_vars

\* The backend as a function of the request: the number of results it finds
\* for a query and a mode, different for the requests of RaceInputs (none in a
\* single mode, as many as the query has characters otherwise)
AnswerOf(request) ==
  IF request.mode # "none" THEN 0
  ELSE IF Len(request.query) < MaxResults THEN Len(request.query) ELSE MaxResults

\* some call in flight returns successfully, with the answer to its request
SubmitQueryReturns ==
  \E i \in DOMAIN inflight : QueryResolve(i, AnswerOf(inflight[i]))

\* The runs in which every timer fires and every submit_query call returns
\* successfully: timers are fired by the event loop, and the backend answers
\* every call.
NextLive ==
  \/ \E value \in RaceInputs : InputChange(value)
  \/ \E t \in timers : TimerFireWithin(t, MaxRace)
  \/ SubmitQueryReturns

SpecLive ==
  /\ Init
  /\ [][NextLive]_vars
  /\ WF_vars(\E t \in timers : TimerFireWithin(t, MaxRace))
  /\ WF_vars(SubmitQueryReturns)

\* The runs around execute_action, over a smaller set of inputs.
NextExec ==
  \/ \E value \in ExecInputs : InputChange(value)
  \/ \E direction \in {1, -1} : stepSelection(direction)
  \/ \E index \in 0..(MaxResults + 1) : handleResultSelect(index)
  \/ \E t \in timers : TimerFire(t)
  \/ \E i \in DOMAIN inflight, n \in 0..MaxResults : QueryResolve(i, n)
  \/ \E index \in 0..(MaxResults + 1) : executeSelected(index)
  \/ ExecuteResolve
  \/ ExecuteReject
  \/ handleEsc
  \/ HideWindowEvent
  \/ ShowWindow
  \/ ToastTimerFire

SpecExec == Init /\ [][NextExec]_vars

\* ------------------------------------------------------- the App component
\* The single-window App component keeps query, results and selectedIndex in
\* state hooks of its own; inputValue holds its query here, and there is no
\* mode: searchQuery, activeMode and isModePrefixOnly stay as they start.

\* onChange of the input, setQuery(value), and the query effect of the render
\* that follows: the cleanup clears the pending timer, the body stores the
\* query in latestQueryRef, empties the list on a blank query and starts the
\* timer of a call for the query as typed otherwise
AppQueryChange(value) ==
  /\ windowVisible
  /\ value # inputValue
  /\ inputValue' = value
  /\ latestQueryRef' = value
  /\ IF Trim(value) = <<>>
     THEN /\ results' = <<>>
          /\ selectedIndex' = 0
          /\ timers' = {}
     ELSE /\ timers' = {[ref |-> value, query |-> value, mode |-> "none"]}
          /\ UNCHANGED <<results, selectedIndex>>
  /\ UNCHANGED <<inflight, windowVisible>>
  /\ UNCHANGED <<searchQuery, activeMode, isModePrefixOnly, toastVars, settings,
                 isComposing, effectCleanup, superseded, loadsInFlight,
                 execInFlight, hideSignals>>
  /\ UNCHANGED auxVars

\* the timer callback up to its await of invoke("submit_query", {query})
AppTimerFire(t) ==
  /\ t \in timers
  /\ Len(inflight) < MaxInFlight
  /\ timers' = timers \ {t}
  /\ inflight' = Append(inflight, [ref |-> t.ref, query |-> t.query, mode |-> t.mode,
                                   older |-> FALSE])
  /\ UNCHANGED <<inputValue, results, selectedIndex, latestQueryRef, windowVisible>>
  /\ UNCHANGED <<searchQuery, activeMode, isModePrefixOnly, toastVars, settings,
                 isComposing, effectCleanup, superseded, loadsInFlight,
                 execInFlight, hideSignals>>
  /\ UNCHANGED auxVars

\* the response arrives with n results: applied, with the selection back at 0,
\* if latestQueryRef.current === query
AppQueryResolve(i, n) ==
  /\ i \in 1..Len(inflight)
  /\ inflight' = RemoveAt(inflight, i)
  /\ IF latestQueryRef = inflight[i].ref
     THEN /\ results' = Response(n)
          /\ selectedIndex' = 0
     ELSE UNCHANGED <<results, selectedIndex>>
  /\ UNCHANGED <<inputValue, latestQueryRef, timers, windowVisible>>
  /\ UNCHANGED <<searchQuery, activeMode, isModePrefixOnly, toastVars, settings,
                 isComposing, effectCleanup, superseded, loadsInFlight,
                 execInFlight, hideSignals>>
  /\ UNCHANGED auxVars

\* the stepping without the count added before the remainder is taken, which
\* in JavaScript has the sign of the dividend
AppStepSelection_noOffset(direction) ==
  /\ windowVisible
  /\ LET resultsCount == Len(results)
         moved == selectedIndex + direction
     IN selectedIndex' =
          IF resultsCount = 0 THEN 0
          ELSE IF moved < 0 THEN 0 - ((0 - moved) % resultsCount)
          ELSE moved % resultsCount
  /\ UNCHANGED <<inputValue, results, latestQueryRef, timers, inflight, windowVisible>>
  /\ UNCHANGED <<searchQuery, activeMode, isModePrefixOnly, toastVars, settings,
                 isComposing, effectCleanup, superseded, loadsInFlight,
                 execInFlight, hideSignals>>
  /\ UNCHANGED auxVars

\* ArrowDown, ArrowUp and the two step buttons:
\* setSelectedIndex(current => (current + direction + resultsCount) % resultsCount)
AppStepSelection(direction) ==
  /\ windowVisible
  /\ LET resultsCount == Len(results)
     IN selectedIndex' =
          IF resultsCount = 0 THEN 0
          ELSE (selectedIndex + direction + resultsCount) % resultsCount
  /\ UNCHANGED <<inputValue, results, latestQueryRef, timers, inflight, windowVisible>>
  /\ UNCHANGED <<searchQuery, activeMode, isModePrefixOnly, toastVars, settings,
                 isComposing, effectCleanup, superseded, loadsInFlight,
                 execInFlight, hideSignals>>
  /\ UNCHANGED auxVars

\* the hide_window listener of App: query, results and selection are reset and
\* the window hidden; the query effect runs if the query changed
AppHideWindow ==
  /\ windowVisible
  /\ inputValue' = <<>>
  /\ results' = <<>>
  /\ selectedIndex' = 0
  /\ windowVisible' = FALSE
  /\ IF inputValue # <<>>
     THEN /\ latestQueryRef' = <<>>
          /\ timers' = {}
     ELSE UNCHANGED <<latestQueryRef, timers>>
  /\ UNCHANGED inflight
  /\ UNCHANGED <<searchQuery, activeMode, isModePrefixOnly, toastVars, settings,
                 isComposing, effectCleanup, superseded, loadsInFlight,
                 execInFlight, hideSignals>>
  /\ UNCHANGED auxVars

NextApp ==
  \/ \E value \in Inputs : AppQueryChange(value)
  \/ \E t \in timers : AppTimerFire(t)
  \/ \E i \in DOMAIN inflight, n \in 0..(MaxResults + 1) : AppQueryResolve(i, n)
  \/ \E direction \in {1, -1} : AppStepSelection(direction)
  \/ AppHideWindow
  \/ ShowWindow

SpecApp == Init /\ [][NextApp]_vars

\* ---------------------------------------------------------- SettingsWindow
MIN_QUERY_DELAY == 50
MAX_QUERY_DELAY == 2000
MIN_RESULT_LIMIT == 10
MAX_RESULT_LIMIT == 60

SectionIds == {"general", "search", "about"}

BooleanSettingKey ==
  {"enable_app_results", "enable_bookmark_results", "launch_on_startup",
   "force_english_input", "debug_mode"}

TRACKED_SETTING_KEYS ==
  {"global_hotkey", "query_delay_ms", "max_results", "enable_app_results",
   "enable_bookmark_results", "prefix_app", "prefix_bookmark", "prefix_search",
   "launch_on_startup", "force_english_input", "debug_mode"}

\* the AppSettings get_settings answers with in the runs that edit and save
LoadedSettings ==
  [global_hotkey |-> <<"h">>, query_delay_ms |-> 120, max_results |-> 20,
   enable_app_results |-> TRUE, enable_bookmark_results |-> TRUE,
   prefix_app |-> <<"r">>, prefix_bookmark |-> <<"b">>, prefix_search |-> <<"s">>,
   launch_on_startup |-> FALSE, force_english_input |-> FALSE,
   debug_mode |-> FALSE]

\* prefix values: a letter, empty, a digit, a letter after a blank, two letters
PrefixValues == {<<"r">>, <<>>, <<"1">>, <<" ", "R">>, <<"r", "s">>}

\* the AppSettings get_settings answers with in the runs that validate: the
\* values on and next to the limits, every combination of the result sources
\* and of the prefix values
SettingsSpace ==
  [global_hotkey : {<<"h">>, <<" ">>},
   query_delay_ms : {MIN_QUERY_DELAY - 1, MIN_QUERY_DELAY,
                     MAX_QUERY_DELAY, MAX_QUERY_DELAY + 1},
   max_results : {MIN_RESULT_LIMIT - 1, MIN_RESULT_LIMIT,
                  MAX_RESULT_LIMIT, MAX_RESULT_LIMIT + 1},
   enable_app_results : BOOLEAN, enable_bookmark_results : BOOLEAN,
   prefix_app : PrefixValues, prefix_bookmark : PrefixValues,
   prefix_search : PrefixValues,
   launch_on_startup : {FALSE}, force_english_input : {FALSE},
   debug_mode : {FALSE}]

\* values typed into the delay field and the hotkey field
DelayEdits == {10, 300}
HotkeyEdits == {<<"a", " ">>}
\* switches clicked
ToggleKeys == {"launch_on_startup"}

NoMessage == "null"
MsgLoading == "loading settings"
MsgHotkeyEmpty == "hotkey must not be empty"
MsgDelayRange == "delay must be within 50~2000 ms"
MsgResultRange == "result count must be within 10~60"
MsgNoSource == "keep at least one result source"
ToastSettingsLoadFailed == "loading the settings failed"
ToastSaved == "settings updated"
ToastSaveFailed == "updating the settings failed"
ToastReset == "saved configuration restored"

MsgPrefixEmpty(label) ==
  CASE label = "app" -> "app prefix must not be empty"
    [] label = "bookmark" -> "bookmark prefix must not be empty"
    [] label = "search" -> "search prefix must not be empty"

MsgPrefixLetter(label) ==
  CASE label = "app" -> "app prefix must be one letter"
    [] label = "bookmark" -> "bookmark prefix must be one letter"
    [] label = "search" -> "search prefix must be one letter"

validatePrefix(value, label) ==
  LET trimmed == Trim(value)
  IN IF trimmed = <<>> THEN MsgPrefixEmpty(label)
     ELSE IF ~(Len(trimmed) = 1 /\ trimmed[1] \in Letters) THEN MsgPrefixLetter(label)
     ELSE NoMessage

\* a || b || c on the results of validatePrefix
FirstMessage(msgs) ==
  IF msgs[1] # NoMessage THEN msgs[1]
  ELSE IF msgs[2] # NoMessage THEN msgs[2]
  ELSE msgs[3]

\* validationMessage checking the result limit before the delay
validationMessage_resultsFirst(d) ==
  IF d = NoSettings THEN MsgLoading
  ELSE IF Trim(d.global_hotkey) = <<>> THEN MsgHotkeyEmpty
  ELSE IF d.max_results < MIN_RESULT_LIMIT \/ d.max_results > MAX_RESULT_LIMIT
       THEN MsgResultRange
  ELSE IF d.query_delay_ms < MIN_QUERY_DELAY \/ d.query_delay_ms > MAX_QUERY_DELAY
       THEN MsgDelayRange
  ELSE IF ~d.enable_app_results /\ ~d.enable_bookmark_results THEN MsgNoSource
  ELSE FirstMessage(<<validatePrefix(d.prefix_app, "app"),
                      validatePrefix(d.prefix_bookmark, "bookmark"),
                      validatePrefix(d.prefix_search, "search")>>)

\* the memo validationMessage for the draft d
validationMessage(d) ==
  IF d = NoSettings THEN MsgLoading
  ELSE IF Trim(d.global_hotkey) = <<>> THEN MsgHotkeyEmpty
  ELSE IF d.query_delay_ms < MIN_QUERY_DELAY \/ d.query_delay_ms > MAX_QUERY_DELAY
       THEN MsgDelayRange
  ELSE IF d.max_results < MIN_RESULT_LIMIT \/ d.max_results > MAX_RESULT_LIMIT
       THEN MsgResultRange
  ELSE IF ~d.enable_app_results /\ ~d.enable_bookmark_results THEN MsgNoSource
  ELSE FirstMessage(<<validatePrefix(d.prefix_app, "app"),
                      validatePrefix(d.prefix_bookmark, "bookmark"),
                      validatePrefix(d.prefix_search, "search")>>)

\* the memo isDirty
isDirty ==
  IF committed = NoSettings \/ draft = NoSettings THEN FALSE
  ELSE \E key \in TRACKED_SETTING_KEYS : committed[key] # draft[key]

\* disabled={!isDirty || !!validationMessage || isSaving} of the save button
SaveDisabled == ~isDirty \/ validationMessage(draft) # NoMessage \/ isSaving

SettingsShowToast(message) ==
  /\ editToast' = message
  /\ editToastTimers' =
       (IF editToastTimerRef THEN editToastTimers - 1 ELSE editToastTimers) + 1
  /\ editToastTimerRef' = TRUE

SettingsToastTimerFire ==
  /\ editToastTimers > 0
  /\ editToastTimers' = editToastTimers - 1
  /\ editToast' = NoToast
  /\ editToastTimerRef' = FALSE
  /\ UNCHANGED <<committed, draft, activeSection, isSaving, editLoads, updatesInFlight>>
  /\ UNCHANGED <<launcherVars, detectCall, windowVars, reindexInFlight, registrations, editSignals>>

\* loadSettings of SettingsWindow, get_settings answering with appSettings
SettingsLoadResolve(appSettings) ==
  /\ editLoads > 0
  /\ editLoads' = editLoads - 1
  /\ committed' = appSettings
  /\ draft' = appSettings
  /\ UNCHANGED <<activeSection, isSaving, editToast, editToastTimerRef,
                 editToastTimers, updatesInFlight>>
  /\ UNCHANGED <<launcherVars, detectCall, windowVars, reindexInFlight, registrations, editSignals>>

SettingsLoadReject ==
  /\ editLoads > 0
  /\ editLoads' = editLoads - 1
  /\ SettingsShowToast(ToastSettingsLoadFailed)
  /\ UNCHANGED <<committed, draft, activeSection, isSaving, updatesInFlight>>
  /\ UNCHANGED <<launcherVars, detectCall, windowVars, reindexInFlight, registrations, editSignals>>

updateDraftValue(key, value) ==
  /\ draft # NoSettings
  /\ draft[key] # value
  /\ draft' = [draft EXCEPT ![key] = value]
  /\ UNCHANGED <<committed, activeSection, isSaving, editToast, editToastTimerRef,
                 editToastTimers, editLoads, updatesInFlight>>
  /\ UNCHANGED <<launcherVars, detectCall, windowVars, reindexInFlight, registrations, editSignals>>

toggleBoolean(key) ==
  /\ draft # NoSettings
  /\ draft' = [draft EXCEPT ![key] = ~draft[key]]
  /\ UNCHANGED <<committed, activeSection, isSaving, editToast, editToastTimerRef,
                 editToastTimers, editLoads, updatesInFlight>>
  /\ UNCHANGED <<launcherVars, detectCall, windowVars, reindexInFlight, registrations, editSignals>>

\* a click on an entry of the sidebar
SelectSection(id) ==
  /\ id # activeSection
  /\ activeSection' = id
  /\ UNCHANGED <<committed, draft, isSaving, editToast, editToastTimerRef,
                 editToastTimers, editLoads, updatesInFlight>>
  /\ UNCHANGED <<launcherVars, detectCall, windowVars, reindexInFlight, registrations, editSignals>>

\* handleSettingsSave calling update_settings whatever the validation says
handleSettingsSave_unvalidated ==
  /\ draft # NoSettings
  /\ Len(updatesInFlight) < MaxPending
  /\ isSaving' = TRUE
  /\ updatesInFlight' = Append(updatesInFlight, [updates |-> draft])
  /\ UNCHANGED <<committed, draft, activeSection, editToast, editToastTimerRef,
                 editToastTimers, editLoads>>

\* handleSettingsSave up to its await, with at most limit update_settings
\* calls awaiting their response afterwards
handleSettingsSaveWithin(limit) ==
  /\ draft # NoSettings
  /\ IF validationMessage(draft) # NoMessage
     THEN /\ SettingsShowToast(validationMessage(draft))
          /\ UNCHANGED <<committed, draft, activeSection, isSaving, editLoads,
                         updatesInFlight>>
     ELSE /\ Len(updatesInFlight) < limit
          /\ isSaving' = TRUE
          /\ updatesInFlight' = Append(updatesInFlight, [updates |-> draft])
          /\ UNCHANGED <<committed, draft, activeSection, editToast,
                         editToastTimerRef, editToastTimers, editLoads>>

handleSettingsSave == handleSettingsSaveWithin(MaxPending)

\* a click on the save button of the footer
SaveClick ==
  /\ ~SaveDisabled
  /\ handleSettingsSave
  /\ UNCHANGED <<launcherVars, detectCall, windowVars, reindexInFlight, registrations, editSignals>>

\* handleKeyDown of the hotkey field of the general section: Enter
SaveEnter ==
  /\ activeSection = "general"
  /\ handleSettingsSave
  /\ UNCHANGED <<launcherVars, detectCall, windowVars, reindexInFlight, registrations, editSignals>>

\* a click on the save button while up to MaxRace calls may overlap
SaveClickOverlapping ==
  /\ ~SaveDisabled
  /\ handleSettingsSaveWithin(MaxRace)
  /\ UNCHANGED <<launcherVars, detectCall, windowVars, reindexInFlight, registrations, editSignals>>

\* Enter in the hotkey field while up to MaxRace calls may overlap
SaveEnterOverlapping ==
  /\ activeSection = "general"
  /\ handleSettingsSaveWithin(MaxRace)
  /\ UNCHANGED <<launcherVars, detectCall, windowVars, reindexInFlight, registrations, editSignals>>

\* what update_settings may answer to updates: the same, or its normal form
ServerResponses(updates) ==
  {updates, [updates EXCEPT !.global_hotkey = Trim(updates.global_hotkey)]}

UpdateSettingsResolve_keepDraft(i, response) ==
  /\ i \in DOMAIN updatesInFlight
  /\ response \in ServerResponses(updatesInFlight[i].updates)
  /\ updatesInFlight' = RemoveAt(updatesInFlight, i)
  /\ committed' = response
  /\ SettingsShowToast(ToastSaved)
  /\ isSaving' = FALSE
  /\ UNCHANGED <<draft, activeSection, editLoads>>
  /\ UNCHANGED <<launcherVars, detectCall, windowVars, reindexInFlight, registrations, editSignals>>

\* handleSettingsSave from its await on, update_settings answering with response
UpdateSettingsResolve(i, response) ==
  /\ i \in DOMAIN updatesInFlight
  /\ response \in ServerResponses(updatesInFlight[i].updates)
  /\ updatesInFlight' = RemoveAt(updatesInFlight, i)
  /\ committed' = response
  /\ draft' = response
  /\ SettingsShowToast(ToastSaved)
  /\ isSaving' = FALSE
  /\ UNCHANGED <<activeSection, editLoads>>
  /\ UNCHANGED <<launcherVars, detectCall, windowVars, reindexInFlight, registrations, editSignals>>

\* the rejection without the finally block
UpdateSettingsReject_stillSaving(i) ==
  /\ i \in DOMAIN updatesInFlight
  /\ updatesInFlight' = RemoveAt(updatesInFlight, i)
  /\ SettingsShowToast(ToastSaveFailed)
  /\ UNCHANGED <<committed, draft, activeSection, isSaving, editLoads>>
  /\ UNCHANGED <<launcherVars, detectCall, windowVars, reindexInFlight, registrations, editSignals>>

\* handleSettingsSave from its await on, update_settings being rejected: catch
\* and finally
UpdateSettingsReject(i) ==
  /\ i \in DOMAIN updatesInFlight
  /\ updatesInFlight' = RemoveAt(updatesInFlight, i)
  /\ SettingsShowToast(ToastSaveFailed)
  /\ isSaving' = FALSE
  /\ UNCHANGED <<committed, draft, activeSection, editLoads>>
  /\ UNCHANGED <<launcherVars, detectCall, windowVars, reindexInFlight, registrations, editSignals>>

handleReset_keepSection ==
  /\ committed # NoSettings
  /\ draft' = committed
  /\ SettingsShowToast(ToastReset)
  /\ UNCHANGED <<committed, activeSection, isSaving, editLoads, updatesInFlight>>
  /\ UNCHANGED <<launcherVars, detectCall, windowVars, reindexInFlight, registrations, editSignals>>

handleReset ==
  /\ committed # NoSettings
  /\ draft' = committed
  /\ activeSection' = "general"
  /\ SettingsShowToast(ToastReset)
  /\ UNCHANGED <<committed, isSaving, editLoads, updatesInFlight>>
  /\ UNCHANGED <<launcherVars, detectCall, windowVars, reindexInFlight, registrations, editSignals>>

\* The settings window from its mount on: load, edits, save, reset.
NextEdit ==
  \/ SettingsLoadResolve(LoadedSettings)
  \/ SettingsLoadReject
  \/ \E value \in DelayEdits : updateDraftValue("query_delay_ms", value)
  \/ \E value \in HotkeyEdits : updateDraftValue("global_hotkey", value)
  \/ \E key \in ToggleKeys : toggleBoolean(key)
  \/ \E id \in SectionIds : SelectSection(id)
  \/ SaveClick
  \/ SaveEnter
  \/ \E i \in DOMAIN updatesInFlight :
       \E response \in ServerResponses(updatesInFlight[i].updates) :
         UpdateSettingsResolve(i, response)
  \/ \E i \in DOMAIN updatesInFlight : UpdateSettingsReject(i)
  \/ handleReset
  \/ SettingsToastTimerFire

SpecEdit == Init /\ [][NextEdit]_vars

\* The runs in which a save may be started while another awaits its response.
NextSave ==
  \/ SettingsLoadResolve(LoadedSettings)
  \/ \E value \in DelayEdits : updateDraftValue("query_delay_ms", value)
  \/ SaveClickOverlapping
  \/ SaveEnterOverlapping
  \/ \E i \in DOMAIN updatesInFlight :
       \E response \in ServerResponses(updatesInFlight[i].updates) :
         UpdateSettingsResolve(i, response)
  \/ \E i \in DOMAIN updatesInFlight : UpdateSettingsReject(i)
  \/ SettingsToastTimerFire

SpecSave == Init /\ [][NextSave]_vars

\* The settings window validating what get_settings answered with.
NextValidate ==
  \E appSettings \in SettingsSpace : SettingsLoadResolve(appSettings)

SpecValidate == Init /\ [][NextValidate]_vars

\* The runs with failing backend calls and the toast they raise, in the
\* launcher and in the settings window.
NextFail ==
  \/ \E value \in ExecInputs : InputChange(value)
  \/ \E direction \in {1, -1} : stepSelection(direction)
  \/ \E t \in timers : TimerFire(t)
  \/ \E i \in DOMAIN inflight, n \in 0..MaxResults : QueryResolve(i, n)
  \/ \E i \in DOMAIN inflight : QueryReject(i)
  \/ \E index \in 0..(MaxResults + 1) : executeSelected(index)
  \/ ExecuteReject
  \/ LoadSettingsReject
  \/ TriggerReindexResolve
  \/ TriggerReindexReject
  \/ ToastTimerFire
  \/ SettingsLoadResolve(LoadedSettings)
  \/ SettingsLoadReject
  \/ \E value \in DelayEdits : updateDraftValue("query_delay_ms", value)
  \/ SaveClick
  \/ \E i \in DOMAIN updatesInFlight : UpdateSettingsReject(i)

SpecFail == Init /\ [][NextFail]_vars

\* settings another window has saved, as settings_updated carries them
ExternalSettings == [LoadedSettings EXCEPT !.query_delay_ms = 500]

\* settings_updated is published on the event bus, with a payload or without
PublishSettingsUpdated(payload) ==
  /\ Len(editSignals) < MaxPending
  /\ editSignals' = Append(editSignals, payload)
  /\ UNCHANGED <<committed, draft, activeSection, isSaving, editToast,
                 editToastTimerRef, editToastTimers, editLoads, updatesInFlight>>
  /\ UNCHANGED <<launcherVars, detectCall, windowVars, reindexInFlight, registrations>>

\* the event reaches the settings window: SettingsWindow registers no listener
\* on the event bus, the event is dropped
SettingsWindowSignal ==
  /\ editSignals # <<>>
  /\ editSignals' = Tail(editSignals)
  /\ UNCHANGED <<committed, draft, activeSection, isSaving, editToast,
                 editToastTimerRef, editToastTimers, editLoads, updatesInFlight>>
  /\ UNCHANGED <<launcherVars, detectCall, windowVars, reindexInFlight, registrations>>

\* The runs in which settings arrive, as payload of settings_updated or as
\* answer of get_settings, in the launcher while a query is typed and answered
\* and in the settings window.
NextSettings ==
  \/ \E value \in ExecInputs : InputChange(value)
  \/ \E t \in timers : TimerFire(t)
  \/ \E i \in DOMAIN inflight, n \in 0..MaxResults : QueryResolve(i, n)
  \/ \E s \in SettingsPayloads : LoadSettingsResolve(s)
  \/ \E s \in SettingsPayloads : SettingsUpdatedPayload(s)
  \/ SettingsUpdatedEmpty
  \/ SettingsLoadResolve(LoadedSettings)
  \/ \E payload \in {NoSettings, ExternalSettings} : PublishSettingsUpdated(payload)
  \/ SettingsWindowSignal

SpecSettings == Init /\ [][NextSettings]_vars

\* The toasts of both windows from show to expiry; a pending dismiss timer that
\* is not cleared fires.
NextToast ==
  \/ LoadSettingsReject
  \/ SettingsUpdatedEmpty
  \/ TriggerReindexReject
  \/ ToastTimerFire
  \/ SettingsLoadResolve(LoadedSettings)
  \/ SettingsLoadReject
  \/ \E value \in DelayEdits : updateDraftValue("query_delay_ms", value)
  \/ SaveEnter
  \/ \E i \in DOMAIN updatesInFlight :
       \E response \in ServerResponses(updatesInFlight[i].updates) :
         UpdateSettingsResolve(i, response)
  \/ \E i \in DOMAIN updatesInFlight : UpdateSettingsReject(i)
  \/ handleReset
  \/ SettingsToastTimerFire

SpecToast ==
  /\ Init
  /\ [][NextToast]_vars
  /\ WF_vars(ToastTimerFire)
  /\ WF_vars(SettingsToastTimerFire)

\* ------------------------------------------------------ the settings window
\* Every handle carries the label "settings"; a handle is written as the number
\* of the window it was made for: the one its constructor asked for, or the one
\* alive when it was found by label.
SETTINGS_WINDOW_LABEL == "settings"

ToastSwitchFailed == "switching to the settings window failed"
ToastOpenFailed == "cannot open the settings window"

\* the launcher state the window handling leaves alone
launcherCore == <<sessionVars, results, selectedIndex, settings, isComposing,
                  effectVars, inflight, loadsInFlight, execInFlight,
                  hideSignals, windowVisible>>

\* the label every handle carries
LabelOf(handle) == IF handle = NoWindow THEN "null" ELSE SETTINGS_WINDOW_LABEL

\* new WebviewWindow("settings", ...), the handle tracked and its two once
\* listeners registered; the backend creates the window later
ConstructWindow ==
  /\ nextWindow < MaxWindows
  /\ nextWindow' = nextWindow + 1
  /\ creations' = Append(creations, nextWindow + 1)
  /\ trackedSettingsWindow' = nextWindow + 1
  /\ destroyedListeners' = destroyedListeners \cup {nextWindow + 1}

\* the open_settings listener: openSettingsWindow runs to its first await, the
\* lookup by label when no handle is tracked, existing.show() when one is
OpenSettingsEvent ==
  /\ Len(openCalls) < MaxOpenCalls
  /\ openCalls' = Append(openCalls,
                         IF trackedSettingsWindow # NoWindow THEN "show"
                                                             ELSE "lookup")
  /\ UNCHANGED <<trackedSettingsWindow, settingsWindow, creations,
                 destroyedListeners, destroyedEvents, nextWindow>>
  /\ UNCHANGED <<launcherVars, detectCall, editVars, reindexInFlight, registrations>>

\* getByLabel answers: a window found is adopted and shown, none found and the
\* call constructs one
LookupResolve(i) ==
  /\ i \in DOMAIN openCalls
  /\ openCalls[i] = "lookup"
  /\ IF settingsWindow # NoWindow
       THEN /\ trackedSettingsWindow' = settingsWindow
            /\ openCalls' = [openCalls EXCEPT ![i] = "show"]
            /\ UNCHANGED <<creations, destroyedListeners, nextWindow>>
       ELSE /\ ConstructWindow
            /\ openCalls' = RemoveAt(openCalls, i)
  /\ UNCHANGED <<settingsWindow, destroyedEvents>>
  /\ UNCHANGED <<launcherVars, detectCall, editVars, reindexInFlight, registrations>>

\* getByLabel throws: logged, and the call constructs a window
LookupReject(i) ==
  /\ i \in DOMAIN openCalls
  /\ openCalls[i] = "lookup"
  /\ ConstructWindow
  /\ openCalls' = RemoveAt(openCalls, i)
  /\ UNCHANGED <<settingsWindow, destroyedEvents>>
  /\ UNCHANGED <<launcherVars, detectCall, editVars, reindexInFlight, registrations>>

\* existing.show() resolves: the window is there
ShowResolve(i) ==
  /\ i \in DOMAIN openCalls
  /\ openCalls[i] = "show"
  /\ settingsWindow # NoWindow
  /\ openCalls' = [openCalls EXCEPT ![i] = "setFocus"]
  /\ UNCHANGED <<trackedSettingsWindow, settingsWindow, creations,
                 destroyedListeners, destroyedEvents, nextWindow>>
  /\ UNCHANGED <<launcherVars, detectCall, editVars, reindexInFlight, registrations>>

\* existing.setFocus() resolves: the call returns
FocusResolve(i) ==
  /\ i \in DOMAIN openCalls
  /\ openCalls[i] = "setFocus"
  /\ settingsWindow # NoWindow
  /\ openCalls' = RemoveAt(openCalls, i)
  /\ UNCHANGED <<trackedSettingsWindow, settingsWindow, creations,
                 destroyedListeners, destroyedEvents, nextWindow>>
  /\ UNCHANGED <<launcherVars, detectCall, editVars, reindexInFlight, registrations>>

\* the catch returning after it toasted and cleared the handle
SwitchReject_noRetry(i) ==
  /\ i \in DOMAIN openCalls
  /\ openCalls[i] \in {"show", "setFocus"}
  /\ settingsWindow = NoWindow
  /\ showToast(ToastSwitchFailed)
  /\ trackedSettingsWindow' = NoWindow
  /\ openCalls' = RemoveAt(openCalls, i)
  /\ UNCHANGED <<settingsWindow, destroyedEvents, creations, destroyedListeners,
                 nextWindow>>
  /\ UNCHANGED <<launcherCore, detectCall, editVars, reindexInFlight, registrations>>

\* existing.show() or existing.setFocus() rejects, there being no window with
\* the label: the catch toasts and clears the handle, and the call goes on to
\* construct a window
SwitchReject(i) ==
  /\ i \in DOMAIN openCalls
  /\ openCalls[i] \in {"show", "setFocus"}
  /\ settingsWindow = NoWindow
  /\ showToast(ToastSwitchFailed)
  /\ ConstructWindow
  /\ openCalls' = RemoveAt(openCalls, i)
  /\ UNCHANGED <<settingsWindow, destroyedEvents>>
  /\ UNCHANGED <<launcherCore, detectCall, editVars, reindexInFlight, registrations>>

\* the backend creates the oldest window asked for, its label being free
CreateResolve ==
  /\ creations # <<>>
  /\ settingsWindow = NoWindow
  /\ settingsWindow' = Head(creations)
  /\ creations' = Tail(creations)
  /\ UNCHANGED <<trackedSettingsWindow, destroyedListeners, destroyedEvents,
                 openCalls, nextWindow>>
  /\ UNCHANGED <<launcherVars, detectCall, editVars, reindexInFlight, registrations>>

\* the backend fails to create the oldest window asked for, as it must when the
\* label is taken; the handle's tauri://error callback toasts and clears the
\* tracked handle, whose label is always "settings"
CreateReject ==
  /\ creations # <<>>
  /\ creations' = Tail(creations)
  /\ showToast(ToastOpenFailed)
  /\ trackedSettingsWindow' =
       IF LabelOf(trackedSettingsWindow) = SETTINGS_WINDOW_LABEL
         THEN NoWindow ELSE trackedSettingsWindow
  /\ UNCHANGED <<settingsWindow, destroyedListeners, destroyedEvents,
                 openCalls, nextWindow>>
  /\ UNCHANGED <<launcherCore, detectCall, editVars, reindexInFlight, registrations>>

\* the settings window is closed: tauri://destroyed goes out to every listener
\* registered for the label, each of which is used up
CloseSettingsWindow ==
  /\ settingsWindow # NoWindow
  /\ settingsWindow' = NoWindow
  /\ destroyedEvents' = destroyedEvents \cup destroyedListeners
  /\ destroyedListeners' = {}
  /\ UNCHANGED <<trackedSettingsWindow, creations, openCalls, nextWindow>>
  /\ UNCHANGED <<launcherVars, detectCall, editVars, reindexInFlight, registrations>>

\* a tauri://destroyed callback runs: it clears the tracked handle, whose label
\* is always "settings"
DestroyedCallback(w) ==
  /\ w \in destroyedEvents
  /\ destroyedEvents' = destroyedEvents \ {w}
  /\ trackedSettingsWindow' =
       IF LabelOf(trackedSettingsWindow) = SETTINGS_WINDOW_LABEL
         THEN NoWindow ELSE trackedSettingsWindow
  /\ UNCHANGED <<settingsWindow, creations, destroyedListeners, openCalls,
                 nextWindow>>
  /\ UNCHANGED <<launcherVars, detectCall, editVars, reindexInFlight, registrations>>

\* The launcher opening, reusing and losing its settings window.
NextWin ==
  \/ OpenSettingsEvent
  \/ \E i \in DOMAIN openCalls : LookupResolve(i)
  \/ \E i \in DOMAIN openCalls : LookupReject(i)
  \/ \E i \in DOMAIN openCalls : ShowResolve(i)
  \/ \E i \in DOMAIN openCalls : FocusResolve(i)
  \/ \E i \in DOMAIN openCalls : SwitchReject(i)
  \/ CreateResolve
  \/ CreateReject
  \/ CloseSettingsWindow
  \/ \E w \in destroyedEvents : DestroyedCallback(w)
  \/ ToastTimerFire

SpecWin == Init /\ [][NextWin]_vars

\* ------------------------------------------------- the open_settings listener
\* A run of the effect is written as a record: promise is the state of its
\* listen() call, cleaned tells that its cleanup has run, listening that the
\* handler it passed to listen() is registered on the event bus. The unlisten
\* variable of the run's closure is assigned when the promise resolves.
ToastListenFailed == "listening for the settings window event failed"

Listening == {k \in DOMAIN registrations : registrations[k].listening}

\* the effect body runs again, after a remount of the component or a change of
\* its dependencies: void register()
RegisterEffect ==
  /\ Len(registrations) < MaxEffectRuns
  /\ \A k \in DOMAIN registrations : registrations[k].cleaned
  /\ registrations' = Append(registrations,
                             [promise |-> "pending", cleaned |-> FALSE,
                              listening |-> FALSE])
  /\ UNCHANGED <<launcherVars, detectCall, editVars, windowVars, reindexInFlight>>

\* the cleanup of a run: if (unlisten) unlisten(), unlisten being assigned only
\* once the promise has resolved
RegisterCleanup(k) ==
  /\ k \in DOMAIN registrations
  /\ ~registrations[k].cleaned
  /\ registrations' =
       [registrations EXCEPT
          ![k].cleaned = TRUE,
          ![k].listening = IF registrations[k].promise = "resolved" THEN FALSE
                           ELSE registrations[k].listening]
  /\ UNCHANGED <<launcherVars, detectCall, editVars, windowVars, reindexInFlight>>

\* listen(OPEN_SETTINGS_EVENT, handler) resolves: the handler is registered and
\* the closure's unlisten assigned, whether the cleanup has run or not
ListenResolve(k) ==
  /\ k \in DOMAIN registrations
  /\ registrations[k].promise = "pending"
  /\ registrations' = [registrations EXCEPT ![k].promise = "resolved",
                                             ![k].listening = TRUE]
  /\ UNCHANGED <<launcherVars, detectCall, editVars, windowVars, reindexInFlight>>

\* listen() rejects: the catch of register toasts
ListenReject(k) ==
  /\ k \in DOMAIN registrations
  /\ registrations[k].promise = "pending"
  /\ registrations' = [registrations EXCEPT ![k].promise = "rejected"]
  /\ showToast(ToastListenFailed)
  /\ UNCHANGED <<launcherCore, detectCall, editVars, windowVars, reindexInFlight>>

\* the backend emits open_settings once: every registered handler runs
\* openSettingsWindow up to its first await
OpenSettingsSignal ==
  /\ Listening # {}
  /\ Len(openCalls) + Cardinality(Listening) <= MaxOpenCalls
  /\ openCalls' = openCalls \o
                    [j \in 1..Cardinality(Listening) |->
                       IF trackedSettingsWindow # NoWindow THEN "show" ELSE "lookup"]
  /\ UNCHANGED <<trackedSettingsWindow, settingsWindow, creations,
                 destroyedListeners, destroyedEvents, nextWindow>>
  /\ UNCHANGED <<launcherVars, detectCall, editVars, reindexInFlight, registrations>>

\* The effect that registers the open_settings listener, run, cleaned up and
\* run again, and the signals that reach its handlers.
NextBus ==
  \/ RegisterEffect
  \/ \E k \in DOMAIN registrations : RegisterCleanup(k)
  \/ \E k \in DOMAIN registrations : ListenResolve(k)
  \/ \E k \in DOMAIN registrations : ListenReject(k)
  \/ OpenSettingsSignal
  \/ \E i \in DOMAIN openCalls : LookupResolve(i)
  \/ ToastTimerFire

SpecBus == Init /\ [][NextBus]_vars

\* ------------------------------------------------------------- the resolver
\* detectModeFromInput as applyInputValue calls it, on an input and the prefix
\* map of a settings value of its own
Detect(value, s) ==
  /\ detectCall = NoDetection
  /\ detectCall' =
       [inputValue |-> value, settings |-> s,
        result |-> detectModeFromInput(
                     value, buildPrefixToMode(buildModeConfigsFromSettings(s))),
        repeated |-> NoDetection]
  /\ UNCHANGED <<launcherVars, editVars, windowVars, reindexInFlight, registrations>>

\* a second call whose pattern kept the position the first match ended at, as
\* a pattern with the g flag does: no match, the fallback result
DetectAgain_lastIndex ==
  /\ detectCall # NoDetection
  /\ detectCall.repeated = NoDetection
  /\ detectCall' =
       [detectCall EXCEPT
          !.repeated = [mode |-> DEFAULT_MODE_CONFIGS.all,
                        cleanedQuery |-> detectCall.inputValue,
                        isPrefixOnly |-> FALSE]]
  /\ UNCHANGED <<launcherVars, editVars, windowVars, reindexInFlight, registrations>>

\* detectModeFromInput called once more on the arguments of the first call:
\* the patterns are literals without flags, the map is only read
DetectAgain ==
  /\ detectCall # NoDetection
  /\ detectCall.repeated = NoDetection
  /\ detectCall' =
       [detectCall EXCEPT
          !.repeated = detectModeFromInput(
                         detectCall.inputValue,
                         buildPrefixToMode(buildModeConfigsFromSettings(detectCall.settings)))]
  /\ UNCHANGED <<launcherVars, editVars, windowVars, reindexInFlight, registrations>>

NextResolve ==
  \/ /\ detectCall = NoDetection
     /\ \E value \in ResolverInputs,
           s \in {NoSettings} \cup SettingsChoices \cup CollidingSettings : Detect(value, s)
  \/ DetectAgain

SpecResolve == Init /\ [][NextResolve]_vars

\* =================================================================== claims

\* C1: a submit_query response whose request was dispatched for a cleaned query
\* other than the session's current searchQuery leaves results and
\* selectedIndex unchanged.
C1_StaleResponseDiscarded ==
  [][\A i \in 1..Len(inflight), n \in 0..MaxResults :
       (QueryResolve(i, n) /\ inflight[i].ref # searchQuery)
         => UNCHANGED <<results, selectedIndex>>]_vars

\* C2: once the response of a later call has been applied, the response of an
\* earlier call changes neither results nor selectedIndex.
C2_NoOlderOverwrite ==
  [][\A i \in 1..Len(inflight), n \in 0..MaxResults :
       (QueryResolve(i, n) /\ inflight[i].older)
         => UNCHANGED <<results, selectedIndex>>]_vars

\* C3 as stated: whenever a debounce timer fires it is the only pending timer,
\* it belongs to the last input change, and the one call it makes carries the
\* session's current cleaned query; no timer is left to make a second call.
C3_DebounceCarriesLastQuery ==
  [][\A t \in timers :
       TimerFire(t) => /\ timers = {t}
                       /\ t.ref = searchQuery
                       /\ t.query = searchQuery
                       /\ timers' = {}]_vars

\* C3 as amended: the same, the call carrying the current cleaned query with
\* its leading and trailing whitespace removed.
C3_DebounceCarriesTrimmedQuery ==
  [][\A t \in timers :
       TimerFire(t) => /\ timers = {t}
                       /\ t.ref = searchQuery
                       /\ t.query = Trim(searchQuery)
                       /\ timers' = {}]_vars

\* three eligible inputs in a row, each replacing the pending timer of the one
\* before, then one call: it is made for "a " and carries "a"
C3_Witness ==
  /\ superseded >= 2
  /\ timers = {}
  /\ searchQuery = <<"a", " ">>
  /\ Len(inflight) = 1
  /\ inflight[1].ref = <<"a", " ">>
  /\ inflight[1].query = <<"a">>

\* C4: at most one debounce timer is pending, and it is the timer of the last
\* run of the query effect (a replaced timer is gone, so it cannot fire).
C4_AtMostOneTimer ==
  /\ Cardinality(timers) <= 1
  /\ timers \subseteq effectCleanup

\* a timer is pending that replaced the pending timer of an earlier query
C4_Witness ==
  /\ superseded >= 1
  /\ Cardinality(timers) = 1

\* C5 as stated: after an input change whose cleaned query is empty, results is
\* empty, selectedIndex is 0 and no call is scheduled, whatever the prefix-only
\* and composing flags.
C5_EmptyQueryClears ==
  [][\A value \in Inputs :
       ((InputChange(value) \/ CompositionEnd(value)) /\ searchQuery' = <<>>)
         => /\ results' = <<>>
            /\ selectedIndex' = 0
            /\ timers' = {}]_vars

\* C5 as amended: after an input change whose cleaned query is empty no call is
\* scheduled; results is empty and selectedIndex is 0 when the input is not
\* prefix-only and no composition is in progress.
C5_EmptyQueryClearsUnlessSuspended ==
  [][\A value \in Inputs :
       ((InputChange(value) \/ CompositionEnd(value)) /\ searchQuery' = <<>>)
         => /\ timers' = {}
            /\ (~isModePrefixOnly' /\ ~isComposing')
                 => (results' = <<>> /\ selectedIndex' = 0)]_vars

\* the prefix-only input "b:" after results were shown: the results stay and
\* nothing is scheduled
C5_Witness ==
  /\ inputValue = <<"b", ":">>
  /\ isModePrefixOnly
  /\ searchQuery = <<>>
  /\ results # <<>>
  /\ timers = {}

\* C6: while a composition is in progress no submit_query call is made and an
\* input change leaves results and selectedIndex alone; composition end clears
\* the flag, resolves the input again and schedules an eligible non-blank
\* query; composition start leaves the calls in flight alone.
C6_CompositionGating ==
  [][/\ isComposing => Len(inflight') <= Len(inflight)
     /\ \A value \in Inputs :
          (InputChange(value) /\ isComposing) => UNCHANGED <<results, selectedIndex>>
     /\ \A value \in Inputs :
          CompositionEnd(value) =>
            LET d == detectModeFromInput(value, prefixToMode)
            IN /\ ~isComposing'
               /\ <<activeMode', searchQuery', isModePrefixOnly'>> =
                    <<d.mode, d.cleanedQuery, d.isPrefixOnly>>
               /\ (~d.isPrefixOnly /\ Trim(d.cleanedQuery) # <<>>)
                    => timers' = {TimerFor(d.cleanedQuery, d.mode)}
     /\ CompositionStart => inflight' = inflight]_vars

\* a composition in progress during which the input changed, with a call in
\* flight and earlier results on screen
C6_Witness ==
  /\ isComposing
  /\ searchQuery # latestQueryRef
  /\ inflight # <<>>
  /\ results # <<>>
  /\ timers = {}

\* C7: the hide_window listener leaves the session idle (input, query and
\* results empty, selection 0, the default all mode, not prefix-only) and the
\* primary window hidden.
C7_HideWindowResets ==
  [][HideWindowEvent =>
       /\ inputValue' = <<>>
       /\ searchQuery' = <<>>
       /\ results' = <<>>
       /\ selectedIndex' = 0
       /\ activeMode' = DEFAULT_MODE_CONFIGS.all
       /\ isModePrefixOnly' = FALSE
       /\ ~windowVisible']_vars

\* the window was hidden while a call made for a typed query was in flight
C7_Witness ==
  /\ ~windowVisible
  /\ hideSignals = 0
  /\ inflight # <<>>
  /\ inputValue = <<>>
  /\ results = <<>>
  /\ activeMode = DEFAULT_MODE_CONFIGS.all

\* C8: a successful execute_action and an Escape keypress both publish
\* hide_window to the hide_window listener (or have reset and hidden already).
C8_SingleResetPath ==
  [][/\ handleEsc => hideSignals' = hideSignals + 1
     /\ ExecuteResolve =>
          \/ hideSignals' = hideSignals + 1
          \/ /\ inputValue' = <<>>
             /\ searchQuery' = <<>>
             /\ results' = <<>>
             /\ selectedIndex' = 0
             /\ ~windowVisible']_vars

\* C9: activeMode, searchQuery and isModePrefixOnly are what the resolver gives
\* for the current inputValue and the prefix map of the current settings.
C9_SessionIsResolverOutput ==
  LET d == detectModeFromInput(inputValue, prefixToMode)
  IN /\ activeMode.id = d.mode.id
     /\ searchQuery = d.cleanedQuery
     /\ isModePrefixOnly = d.isPrefixOnly

\* C10: after every step selectedIndex is 0 when results is empty and an
\* index of results otherwise, and a step that changes results leaves
\* selectedIndex at 0.
C10_SelectedIndexValid ==
  [][/\ IF results' = <<>> THEN selectedIndex' = 0
        ELSE selectedIndex' \in 0..(Len(results') - 1)
     /\ results' # results => selectedIndex' = 0]_vars

\* the last of several results is selected while a response is on its way
C10_Witness ==
  /\ Len(results) >= 2
  /\ selectedIndex = Len(results) - 1
  /\ inflight # <<>>
  /\ IsCurrent(latestQueryRef, inflight[1].ref)

\* the window a handle was made for is there, or the backend has yet to create it
WindowAlive(handle) ==
  /\ handle # NoWindow
  /\ \/ settingsWindow = handle
     \/ \E k \in DOMAIN creations : creations[k] = handle

\* C11: openSettingsWindow constructs a settings window only when no window
\* labelled "settings" is there and none is being created, so that open_settings
\* signals with no close in between construct exactly one window and every later
\* call shows and focuses the tracked one, also when a signal arrives before an
\* earlier call has finished looking up or creating the window.
C11_SingleConstruction ==
  [][nextWindow' > nextWindow =>
       settingsWindow = NoWindow /\ creations = <<>>]_vars

\* C12: (1) a tauri://destroyed or tauri://error callback leaves the tracked
\* handle null; (2) an open_settings call never starts with a tracked handle to
\* a window that is gone, is not being created and has no destroyed callback on
\* its way; (3) the callback of one window never clears the tracked handle of a
\* different window that is there or being created.
C12_HandleFollowsWindow ==
  [][/\ ((\E w \in destroyedEvents : DestroyedCallback(w)) \/ CreateReject)
          => trackedSettingsWindow' = NoWindow
     /\ (OpenSettingsEvent /\ trackedSettingsWindow # NoWindow)
          => (WindowAlive(trackedSettingsWindow) \/ destroyedEvents # {})
     /\ \A w \in 1..MaxWindows :
          ( /\ DestroyedCallback(w) \/ (CreateReject /\ Head(creations) = w)
            /\ trackedSettingsWindow # w
            /\ WindowAlive(trackedSettingsWindow) )
          => trackedSettingsWindow' = trackedSettingsWindow]_vars

\* C21: a rejected submit_query call leaves results and selectedIndex as they
\* were, shows the failure toast with its dismiss timer, leaves the session and
\* the pending debounce timers alone and makes no call: the rejected request
\* leaves the calls in flight and nothing takes its place.
C21_RejectKeepsResults ==
  [][\A i \in DOMAIN inflight :
       QueryReject(i)
         => /\ results' = results
            /\ selectedIndex' = selectedIndex
            /\ toastMessage' = ToastQueryFailed
            /\ toastTimerRef' /\ toastTimers' > 0
            /\ timers' = timers
            /\ inflight' = RemoveAt(inflight, i)
            /\ UNCHANGED sessionVars]_vars

\* the call for a second query was rejected while the two results of the first
\* are listed and the second of them is selected
C21_Witness ==
  /\ toastMessage = ToastQueryFailed
  /\ results = Response(2)
  /\ selectedIndex = 1
  /\ searchQuery # <<>>
  /\ inflight = <<>>
  /\ timers = {}

\* C22: a rejected execute_action, get_settings, update_settings or
\* trigger_reindex call shows its toast and changes nothing else but the count
\* of calls in flight: the action leaves input, results, selection and the
\* window as they are, the load leaves the settings, the save leaves committed
\* settings and draft and ends with isSaving false, so that a dirty and valid
\* draft can be saved again.
C22_FailureKeepsLastGood ==
  [][/\ ExecuteReject
          => /\ toastMessage' = ToastExecuteFailed /\ toastTimerRef'
             /\ UNCHANGED <<sessionVars, results, selectedIndex, settings,
                            windowVisible, hideSignals, timers, inflight>>
     /\ LoadSettingsReject
          => /\ toastMessage' = ToastLoadFailed /\ toastTimerRef'
             /\ UNCHANGED <<settings, sessionVars, results, selectedIndex,
                            timers, inflight>>
     /\ TriggerReindexReject
          => /\ toastMessage' = ToastReindexFailed /\ toastTimerRef'
             /\ UNCHANGED <<settings, sessionVars, results, selectedIndex,
                            timers, inflight>>
     /\ SettingsLoadReject
          => /\ editToast' = ToastSettingsLoadFailed /\ editToastTimerRef'
             /\ UNCHANGED <<committed, draft, isSaving>>
     /\ \A i \in DOMAIN updatesInFlight :
          UpdateSettingsReject(i)
            => /\ editToast' = ToastSaveFailed /\ editToastTimerRef'
               /\ UNCHANGED <<committed, draft>>
               /\ ~isSaving'
               /\ (isDirty /\ validationMessage(draft) = NoMessage)
                    => ~SaveDisabled']_vars

\* the action on a listed result failed, and so did the save of an edited
\* draft: the list and the draft are still there
C22_Witness ==
  /\ toastMessage = ToastExecuteFailed
  /\ inputValue # <<>>
  /\ results = Response(2)
  /\ selectedIndex = 1
  /\ windowVisible
  /\ settings = NoSettings
  /\ loadsInFlight = 0
  /\ editToast = ToastSaveFailed
  /\ committed = LoadedSettings
  /\ draft = [LoadedSettings EXCEPT !.query_delay_ms = 300]
  /\ ~isSaving
  /\ updatesInFlight = <<>>

\* C23: in both windows at most one dismiss timer is pending, it is the one
\* toastTimerRef holds, and a message is shown only while it is pending; every
\* show leaves its own message shown with exactly one timer pending, whatever
\* was shown before; and a message shown is eventually cleared by the timer.
C23_ToastSingleSlot ==
  /\ [](/\ toastTimers <= 1 /\ editToastTimers <= 1
        /\ toastTimerRef <=> toastTimers = 1
        /\ editToastTimerRef <=> editToastTimers = 1
        /\ toastMessage # NoToast => toastTimers = 1
        /\ editToast # NoToast => editToastTimers = 1)
  /\ [][/\ LoadSettingsReject
            => toastMessage' = ToastLoadFailed /\ toastTimers' = 1
        /\ TriggerReindexReject
            => toastMessage' = ToastReindexFailed /\ toastTimers' = 1
        /\ SettingsLoadReject
            => editToast' = ToastSettingsLoadFailed /\ editToastTimers' = 1
        /\ handleReset
            => editToast' = ToastReset /\ editToastTimers' = 1
        /\ (\E i \in DOMAIN updatesInFlight : UpdateSettingsReject(i))
            => editToast' = ToastSaveFailed /\ editToastTimers' = 1
        /\ ToastTimerFire => toastMessage' = NoToast /\ toastTimers' = 0
        /\ SettingsToastTimerFire
            => editToast' = NoToast /\ editToastTimers' = 0]_vars
  /\ (toastMessage # NoToast) ~> (toastMessage = NoToast)
  /\ (editToast # NoToast) ~> (editToast = NoToast)

\* in the launcher the failed reindex replaced the toast of the failed load, in
\* the settings window the reset replaced the toast of the failed save; one
\* timer is pending in each
C23_Witness ==
  /\ toastMessage = ToastReindexFailed
  /\ loadsInFlight = 0
  /\ toastTimers = 1
  /\ editToast = ToastReset
  /\ isSaving = FALSE
  /\ editToastTimers = 1
  /\ committed = LoadedSettings

\* C24: the hide_window listener, which resets the session, leaves no toast
\* message shown.
C24_ResetClearsToast ==
  [][HideWindowEvent => toastMessage' = NoToast]_vars

\* C25: a settings_updated signal with a payload makes that payload the
\* launcher's settings and calls get_settings not; a signal without payload
\* calls get_settings and leaves the settings until the answer arrives, which
\* then becomes the settings.
C25_SettingsUpdatedApplies ==
  [][/\ \A s \in SettingsPayloads :
          SettingsUpdatedPayload(s)
            => settings' = s /\ loadsInFlight' = loadsInFlight
     /\ SettingsUpdatedEmpty
          => settings' = settings /\ loadsInFlight' = loadsInFlight + 1
     /\ \A s \in SettingsPayloads :
          LoadSettingsResolve(s)
            => settings' = s /\ loadsInFlight' = loadsInFlight - 1]_vars

\* settings with the delay 120 are in place where the others were, and a
\* get_settings call is under way
C25_Witness ==
  /\ settings = MkSettings("r", "b", "s", 120)
  /\ loadsInFlight = 1
  /\ results # <<>>

\* C26: the answer of the get_settings call made on mount becomes the
\* committed settings and the draft; and when a settings_updated event reaches
\* the settings window, its payload becomes the committed settings and the
\* draft, or, there being no payload, get_settings is called again.
C26_EditStateFollowsSettings ==
  [][/\ SettingsLoadResolve(LoadedSettings)
          => committed' = LoadedSettings /\ draft' = LoadedSettings
     /\ SettingsWindowSignal
          => IF Head(editSignals) = NoSettings
               THEN editLoads' = editLoads + 1
               ELSE /\ committed' = Head(editSignals)
                    /\ draft' = Head(editSignals)]_vars

\* C27: a step in direction +1 or -1 changes selectedIndex exactly when there
\* are results and the index moved by one stays within the list, and then to
\* that index; at either end of the list and with no results the step changes
\* nothing, selectedIndex being 0 when the list is empty.
C27_StepClamped ==
  /\ [](windowVisible =>
         /\ (ENABLED stepSelection(1))
               <=> (Len(results) > 0 /\ selectedIndex + 1 < Len(results))
         /\ (ENABLED stepSelection(-1))
               <=> (Len(results) > 0 /\ selectedIndex - 1 >= 0)
         /\ Len(results) = 0 => selectedIndex = 0)
  /\ [][\A direction \in {1, -1} :
          stepSelection(direction)
            => /\ selectedIndex' = selectedIndex + direction
               /\ selectedIndex' \in 0..(Len(results) - 1)
               /\ results' = results]_vars

\* the last of two results is selected while a prefixed query is typed: a step
\* down has nowhere to go
C27_Witness ==
  /\ windowVisible
  /\ results = Response(2)
  /\ selectedIndex = 1
  /\ inputValue = <<"b", ":", "a">>
  /\ ~ENABLED stepSelection(1)
  /\ ENABLED stepSelection(-1)

\* C28 as stated: the call a firing debounce timer makes carries the session's
\* cleaned query as it is then, and a mode exactly when the active mode is not
\* the all mode, which is then the id of the active mode.
C28_CallCarriesQueryAndMode ==
  [][\A t \in timers :
       TimerFire(t)
         => LET call == inflight'[Len(inflight')]
            IN /\ call.query = searchQuery
               /\ (call.mode # "none") <=> (activeMode.id # DEFAULT_MODE_CONFIGS.all.id)
               /\ call.mode # "none" => call.mode = activeMode.id]_vars

\* C28 as amended: the same, the call carrying the cleaned query with its
\* leading and trailing whitespace removed.
C28_CallCarriesTrimmedQueryAndMode ==
  [][\A t \in timers :
       TimerFire(t)
         => LET call == inflight'[Len(inflight')]
            IN /\ call.query = Trim(searchQuery)
               /\ (call.mode # "none") <=> (activeMode.id # DEFAULT_MODE_CONFIGS.all.id)
               /\ call.mode # "none" => call.mode = activeMode.id]_vars

\* the call for "b:a" is under way: it carries "a" and the bookmark mode
C28_Witness ==
  /\ inputValue = <<"b", ":", "a">>
  /\ activeMode.id = "bookmark"
  /\ Len(inflight) = 1
  /\ inflight[1].query = <<"a">>
  /\ inflight[1].mode = "bookmark"
  /\ timers = {}

\* C29: no debounce timer and no submit_query call carries a query that is
\* empty or only whitespace; while isModePrefixOnly is true no timer is
\* pending, so that no call is made; and a step that leaves the session in
\* PrefixOnly, the answer of an earlier call apart, leaves results as they
\* were.
C29_NoBlankQueryNoPrefixOnlyCall ==
  /\ [](/\ \A t \in timers : Trim(t.query) # <<>> /\ t.query = Trim(t.query)
        /\ \A i \in DOMAIN inflight : Trim(inflight[i].query) # <<>>
        /\ isModePrefixOnly => timers = {})
  /\ [][/\ isModePrefixOnly' => Len(inflight') <= Len(inflight)
        /\ (isModePrefixOnly' /\ inflight' = inflight)
             => results' = results]_vars

\* "b:" was typed over the listed results of "a": the hint is shown, the
\* results are still there and nothing is scheduled or under way
C29_Witness ==
  /\ inputValue = <<"b", ":">>
  /\ isModePrefixOnly
  /\ searchQuery = <<>>
  /\ results = Response(2)
  /\ timers = {}
  /\ inflight = <<>>

\* C30: an event that changes neither the input, the cleaned query, the mode
\* nor the composition flag schedules no submit_query call: whatever timer is
\* pending after it was pending before, so that the one call made for the
\* unchanged query is not followed by a second.
C30_NoCallWithoutChange ==
  [][(UNCHANGED <<inputValue, searchQuery, activeMode, isModePrefixOnly,
                  isComposing>>)
       => timers' \subseteq timers]_vars

C33_LaterModeWins ==
  detectCall # NoDetection =>
    LET configs == buildModeConfigsFromSettings(detectCall.settings)
        map == buildPrefixToMode(configs)
        order == <<"bookmark", "app", "search">>
    IN /\ \A i \in 1..3 :
            LET key == ToLower(configs[order[i]].prefix)
                later == {j \in (i + 1)..3 : ToLower(configs[order[j]].prefix) = key}
            IN /\ key \in DOMAIN map
               /\ later = {} => map[key] = configs[order[i]]
               /\ later # {} => /\ map[key] # configs[order[i]]
                                /\ detectCall.result.mode # configs[order[i]]
       /\ detectCall.settings # NoSettings =>
            /\ detectCall.settings.prefix_bookmark = "" => configs.bookmark.prefix = "b"
            /\ detectCall.settings.prefix_app = "" => configs.app.prefix = "r"
            /\ detectCall.settings.prefix_search = "" => configs.search.prefix = "s"

\* "b:a" when the app prefix is B and the bookmark prefix is b: app mode
C33_Witness ==
  /\ detectCall # NoDetection
  /\ detectCall.settings = MkSettings("B", "b", "s", 120)
  /\ detectCall.inputValue = <<"b", ":", "a">>
  /\ detectCall.result.mode.id = "app"
  /\ detectCall.result.cleanedQuery = <<"a">>

\* "b:a" when the bookmark prefix is empty in the settings and the app prefix
\* is b: the default b of the bookmark mode meets it, app mode
C33_WitnessDefault ==
  /\ detectCall # NoDetection
  /\ detectCall.settings = MkSettings("b", "", "s", 120)
  /\ detectCall.inputValue = <<"b", ":", "a">>
  /\ detectCall.result.mode.id = "app"

\* C32: when show or setFocus on the tracked settings window fails, a toast
\* is shown and the same call constructs a new window and tracks it; when the
\* creation of a window fails, a toast is shown and the tracked handle ends
\* null, so that an open_settings that comes later looks the label up and,
\* finding no window, constructs one again: the tracked handle is only ever
\* null, the window that is there, or a newly constructed one.
C32_OpenFailurePaths ==
  /\ [][\A i \in DOMAIN openCalls :
          SwitchReject(i)
            => /\ toastMessage' = ToastSwitchFailed
               /\ trackedSettingsWindow' = nextWindow + 1
               /\ trackedSettingsWindow' # trackedSettingsWindow
               /\ creations' = Append(creations, nextWindow + 1)]_vars
  /\ [][CreateReject
          => /\ toastMessage' = ToastOpenFailed
             /\ trackedSettingsWindow' = NoWindow]_vars
  /\ [][(OpenSettingsEvent /\ trackedSettingsWindow = NoWindow)
          => openCalls'[Len(openCalls')] = "lookup"]_vars
  /\ [][\A i \in DOMAIN openCalls :
          (LookupResolve(i) /\ settingsWindow = NoWindow)
            => /\ trackedSettingsWindow' = nextWindow + 1
               /\ creations' = Append(creations, nextWindow + 1)]_vars
  /\ [][trackedSettingsWindow' # trackedSettingsWindow
          => trackedSettingsWindow' \in {NoWindow, settingsWindow, nextWindow + 1}]_vars

\* the first window was closed while tracked, show on it failed, and the call
\* asked for a second window, tracked while the toast is shown
C32_Witness ==
  /\ toastMessage = ToastSwitchFailed
  /\ trackedSettingsWindow = 2
  /\ creations = <<2>>
  /\ settingsWindow = NoWindow

\* the creation of the first window failed, and the open_settings after it
\* asked for a second one
C32_WitnessCreate ==
  /\ toastMessage = ToastOpenFailed
  /\ trackedSettingsWindow = 2
  /\ creations = <<2>>
  /\ settingsWindow = NoWindow

\* C34: in the App component a step moves the selection circularly: down from
\* the last result goes to the first, up from the first goes to the last, any
\* other step moves by one; the index stays within 0..n-1 for n results, and
\* is 0 when there are none.
C34_AppStepWraps ==
  /\ [](IF results = <<>> THEN selectedIndex = 0
                          ELSE selectedIndex \in 0..(Len(results) - 1))
  /\ [][\A direction \in {1, -1} :
          AppStepSelection(direction)
            => LET n == Len(results)
               IN IF n = 0 THEN selectedIndex' = 0
                  ELSE IF direction = 1 /\ selectedIndex = n - 1 THEN selectedIndex' = 0
                  ELSE IF direction = -1 /\ selectedIndex = 0 THEN selectedIndex' = n - 1
                  ELSE selectedIndex' = selectedIndex + direction]_vars

\* three results listed and the last of them selected, one step up from the
\* first
C34_Witness ==
  /\ Len(results) = 3
  /\ selectedIndex = 2
  /\ inflight = <<>>
  /\ windowVisible

\* C35: once the hide_window listener has reset the search, results stays
\* empty and selectedIndex 0 for as long as the window stays hidden and the
\* field empty: no response of a call made before the reset and no timer
\* started before it puts results back, whether a composition or a request
\* was in progress at the reset or not.
C35_ResetStaysEmpty ==
  (~windowVisible /\ inputValue = <<>>) => (results = <<>> /\ selectedIndex = 0)

\* C36: if from some point on the input stays the same, with a query that is
\* not blank, no prefix-only state and no composition, and every call returns
\* successfully, then from some point on results is the response to the call
\* for the current query and mode.
C36_EventuallyConsistent ==
  \A value \in RaceInputs :
    <>[](/\ inputValue = value
         /\ ~BlankQuery(searchQuery)
         /\ ~isModePrefixOnly
         /\ ~isComposing)
      => <>[](results = Response(AnswerOf(TimerFor(searchQuery, activeMode))))

\* C37: the listeners registered through listen() do not leak: a run of the
\* effect whose cleanup has run has no handler on the bus, also when the
\* cleanup ran before the registration promise resolved; at most one handler
\* is registered on the channel; one open_settings signal starts
\* openSettingsWindow at most once.
C37_NoListenerLeak ==
  /\ [](\A k \in DOMAIN registrations :
          registrations[k].cleaned => ~registrations[k].listening)
  /\ [](Cardinality(Listening) <= 1)
  /\ [][OpenSettingsSignal => Len(openCalls') <= Len(openCalls) + 1]_vars

\* C38: at most one update_settings call awaits its response at any time, and
\* no save is started while isSaving is true, neither by the button nor by
\* Enter.
C38_OneSaveInFlight ==
  /\ [](Len(updatesInFlight) <= 1)
  /\ [][Len(updatesInFlight') > Len(updatesInFlight) => ~isSaving]_vars

\* C39: in every state reached by input changes and resets, isModePrefixOnly
\* implies that searchQuery is empty and activeMode is not the all mode, and
\* the all mode implies that isModePrefixOnly is false.
C39_PrefixOnlyConsistent ==
  /\ isModePrefixOnly => (searchQuery = <<>> /\ activeMode.id # "all")
  /\ activeMode.id = "all" => ~isModePrefixOnly

\* "b:" typed: prefix-only in bookmark mode
C39_Witness ==
  /\ inputValue = <<"b", ":">>
  /\ isModePrefixOnly
  /\ activeMode.id = "bookmark"
  /\ searchQuery = <<>>

\* C40: the reducer changes only the fields of its action: RESET_SEARCH leaves
\* settings, toastMessage and isComposing; SET_INPUT leaves results,
\* selectedIndex, settings, toastMessage and isComposing; SET_RESULTS,
\* SET_SELECTED_INDEX, SET_TOAST, SET_SETTINGS and SET_COMPOSING each leave
\* every field but their own; an action of an unknown type returns the state
\* as it is. The reset of the hide_window listener is the reducer's
\* RESET_SEARCH on the state it finds.
C40_ReducerFrames ==
  /\ [](LET st == LauncherState
            Same(next, fields) == \A f \in (DOMAIN st) \ fields : next[f] = st[f]
        IN /\ Same(launcherReducer(st, [type |-> "RESET_SEARCH"]),
                   {"inputValue", "searchQuery", "results", "selectedIndex",
                    "activeMode", "isModePrefixOnly"})
           /\ \A value \in Inputs :
                LET d == detectModeFromInput(value, prefixToMode)
                IN Same(launcherReducer(st, [type |-> "SET_INPUT",
                                             payload |-> [inputValue |-> value,
                                                          searchQuery |-> d.cleanedQuery,
                                                          activeMode |-> d.mode,
                                                          isModePrefixOnly |-> d.isPrefixOnly]]),
                        {"inputValue", "searchQuery", "activeMode", "isModePrefixOnly"})
           /\ \A n \in 0..MaxResults :
                Same(launcherReducer(st, [type |-> "SET_RESULTS", payload |-> Response(n)]),
                     {"results"})
           /\ \A index \in 0..MaxResults :
                Same(launcherReducer(st, [type |-> "SET_SELECTED_INDEX", payload |-> index]),
                     {"selectedIndex"})
           /\ \A message \in {NoToast, ToastQueryFailed} :
                Same(launcherReducer(st, [type |-> "SET_TOAST", payload |-> message]),
                     {"toastMessage"})
           /\ \A s \in SettingsPayloads :
                Same(launcherReducer(st, [type |-> "SET_SETTINGS", payload |-> s]),
                     {"settings"})
           /\ \A composing \in BOOLEAN :
                Same(launcherReducer(st, [type |-> "SET_COMPOSING", payload |-> composing]),
                     {"isComposing"})
           /\ launcherReducer(st, [type |-> "UNKNOWN"]) = st)
  /\ [][HideWindowEvent
          => LET next == launcherReducer(LauncherState, [type |-> "RESET_SEARCH"])
             IN /\ inputValue' = next.inputValue
                /\ searchQuery' = next.searchQuery
                /\ results' = next.results
                /\ selectedIndex' = next.selectedIndex
                /\ activeMode' = next.activeMode
                /\ isModePrefixOnly' = next.isModePrefixOnly
                /\ toastMessage' = next.toastMessage
                /\ settings' = next.settings
                /\ isComposing' = next.isComposing]_vars

\* the search was reset with settings loaded and a composition in progress:
\* both are as they were
C40_Witness ==
  /\ ~windowVisible
  /\ inputValue = <<>>
  /\ settings # NoSettings
  /\ isComposing
  /\ results = <<>>

\* C13 as stated: an input change to a lone letter that is a configured mode
\* prefix selects that prefix's mode with an empty cleaned query, is
\* prefix-only and schedules no call.
C13_LonePrefixLetter ==
  [][\A value \in Inputs :
       (InputChange(value) /\ Len(value) = 1
          /\ ToLower(value[1]) \in DOMAIN prefixToMode)
         => /\ activeMode' = prefixToMode[ToLower(value[1])]
            /\ searchQuery' = <<>>
            /\ isModePrefixOnly'
            /\ timers' = {}]_vars

\* C13 as amended: an input change to a configured prefix letter followed by a
\* separator and at most whitespace selects that prefix's mode with an empty
\* cleaned query, is prefix-only, schedules no call and makes none; no timer is
\* ever pending while the session is prefix-only; a lone prefix letter without
\* separator resolves to the all mode with the letter as cleaned query.
C13_SeparatedPrefixOnly ==
  [][/\ \A value \in Inputs :
          (InputChange(value) \/ CompositionEnd(value)) =>
            LET t == StripLeft(value)
            IN /\ (/\ Len(t) >= 2
                   /\ ToLower(t[1]) \in DOMAIN prefixToMode
                   /\ t[2] \in Whitespace \cup {":"}
                   /\ \A k \in 3..Len(t) : t[k] \in Whitespace)
                    => /\ activeMode' = prefixToMode[ToLower(t[1])]
                       /\ searchQuery' = <<>>
                       /\ isModePrefixOnly'
                       /\ timers' = {}
                       /\ inflight' = inflight
               /\ (Len(value) = 1 /\ ToLower(value[1]) \in DOMAIN prefixToMode)
                    => /\ activeMode' = DEFAULT_MODE_CONFIGS.all
                       /\ searchQuery' = value
                       /\ ~isModePrefixOnly'
     /\ isModePrefixOnly' => timers' = {}]_vars

\* "a " typed while prefix_bookmark is "a": bookmark mode, prefix-only, nothing
\* scheduled, the earlier results still shown
C13_Witness ==
  /\ settings # NoSettings
  /\ inputValue = <<"a", " ">>
  /\ activeMode.id = "bookmark"
  /\ searchQuery = <<>>
  /\ isModePrefixOnly
  /\ timers = {}
  /\ results # <<>>

\* C14: for an input that, without its leading whitespace, is one letter, then
\* whitespace or a colon, then any text, the letter being (in lower case) a key
\* of the prefix map, the resolver returns the mapped mode, the text after the
\* separator without its leading whitespace (trailing whitespace kept) as
\* cleaned query, and isPrefixOnly exactly when that cleaned query is empty.
C14_MatchRule ==
  detectCall # NoDetection =>
    LET value == detectCall.inputValue
        map == buildPrefixToMode(buildModeConfigsFromSettings(detectCall.settings))
        r == detectCall.result
    IN \A lead \in 0..Len(value) :
         (/\ \A k \in 1..lead : value[k] \in Whitespace
          /\ Len(value) >= lead + 2
          /\ value[lead + 1] \in Letters
          /\ ToLower(value[lead + 1]) \in DOMAIN map
          /\ value[lead + 2] \in Whitespace \cup {":"})
           => /\ r.mode = map[ToLower(value[lead + 1])]
              /\ \E from \in (lead + 3)..(Len(value) + 1) :
                   /\ \A k \in (lead + 3)..(from - 1) : value[k] \in Whitespace
                   /\ from <= Len(value) => value[from] \notin Whitespace
                   /\ r.cleanedQuery = SubSeq(value, from, Len(value))
              /\ r.isPrefixOnly = (r.cleanedQuery = <<>>)

\* "B:a " under the default prefixes: bookmark mode, the keyword keeps its
\* trailing blank
C14_Witness ==
  /\ detectCall # NoDetection
  /\ detectCall.settings = NoSettings
  /\ detectCall.inputValue = <<"B", ":", "a", " ">>
  /\ detectCall.result.mode = DEFAULT_MODE_CONFIGS.bookmark
  /\ detectCall.result.cleanedQuery = <<"a", " ">>
  /\ ~detectCall.result.isPrefixOnly

\* C15: for an input that does not match the prefix pattern, or whose leading
\* letter is not a key of the prefix map, the resolver returns the all mode,
\* the input itself as cleaned query and isPrefixOnly false.
C15_FallbackRule ==
  detectCall # NoDetection =>
    LET value == detectCall.inputValue
        map == buildPrefixToMode(buildModeConfigsFromSettings(detectCall.settings))
        r == detectCall.result
        matches == \E lead \in 0..Len(value) :
                     /\ \A k \in 1..lead : value[k] \in Whitespace
                     /\ Len(value) >= lead + 2
                     /\ value[lead + 1] \in Letters
                     /\ ToLower(value[lead + 1]) \in DOMAIN map
                     /\ value[lead + 2] \in Whitespace \cup {":"}
    IN ~matches => /\ r.mode = DEFAULT_MODE_CONFIGS.all
                   /\ r.cleanedQuery = value
                   /\ r.isPrefixOnly = FALSE

\* " a " under the default prefixes, where a is no prefix: the all mode, the
\* input kept with its blanks
C15_Witness ==
  /\ detectCall # NoDetection
  /\ detectCall.settings = NoSettings
  /\ detectCall.inputValue = <<" ", "a", " ">>
  /\ detectCall.result.mode = DEFAULT_MODE_CONFIGS.all
  /\ detectCall.result.cleanedQuery = <<" ", "a", " ">>

\* C16: the validation message of a draft is the message of the first failing
\* rule in the order hotkey empty after trim, delay outside 50..2000, result
\* limit outside 10..60, both result sources off, then prefix_app,
\* prefix_bookmark and prefix_search not exactly one letter after trim; it is
\* null exactly when no rule fails.
C16_ValidationOrder ==
  draft # NoSettings =>
    LET d == draft
        msg == validationMessage(d)
        blank(v) == \A i \in 1..Len(v) : v[i] \in Whitespace
        oneLetter(v) == \E i \in 1..Len(v) :
                          /\ v[i] \in Letters
                          /\ \A j \in 1..Len(v) : j # i => v[j] \in Whitespace
        r1 == blank(d.global_hotkey)
        r2 == d.query_delay_ms \notin 50..2000
        r3 == d.max_results \notin 10..60
        r4 == ~d.enable_app_results /\ ~d.enable_bookmark_results
        r5a == ~oneLetter(d.prefix_app)
        r5b == ~oneLetter(d.prefix_bookmark)
        r5c == ~oneLetter(d.prefix_search)
    IN /\ (msg = NoMessage) <=> ~(r1 \/ r2 \/ r3 \/ r4 \/ r5a \/ r5b \/ r5c)
       /\ r1 => msg = MsgHotkeyEmpty
       /\ (~r1 /\ r2) => msg = MsgDelayRange
       /\ (~r1 /\ ~r2 /\ r3) => msg = MsgResultRange
       /\ (~r1 /\ ~r2 /\ ~r3 /\ r4) => msg = MsgNoSource
       /\ (~r1 /\ ~r2 /\ ~r3 /\ ~r4 /\ r5a)
            => msg \in {MsgPrefixEmpty("app"), MsgPrefixLetter("app")}
       /\ (~r1 /\ ~r2 /\ ~r3 /\ ~r4 /\ ~r5a /\ r5b)
            => msg \in {MsgPrefixEmpty("bookmark"), MsgPrefixLetter("bookmark")}
       /\ (~r1 /\ ~r2 /\ ~r3 /\ ~r4 /\ ~r5a /\ ~r5b /\ r5c)
            => msg \in {MsgPrefixEmpty("search"), MsgPrefixLetter("search")}

\* a draft failing the rules 2 to 5 at once: the message is the one of rule 2
C16_Witness ==
  /\ draft # NoSettings
  /\ draft.global_hotkey = <<"h">>
  /\ draft.query_delay_ms = 49
  /\ draft.max_results = 61
  /\ ~draft.enable_app_results /\ ~draft.enable_bookmark_results
  /\ draft.prefix_app = <<>>
  /\ draft.prefix_search = <<"1">>
  /\ validationMessage(draft) = MsgDelayRange

\* C17: a save of a draft that fails validation calls update_settings not,
\* shows the validation message as toast and leaves committed settings and
\* draft as they are; a call that is started carries a valid draft.
C17_InvalidSaveBlocked ==
  [][/\ ((SaveClick \/ SaveEnter) /\ validationMessage(draft) # NoMessage)
          => /\ updatesInFlight' = updatesInFlight
             /\ editToast' = validationMessage(draft)
             /\ UNCHANGED <<committed, draft>>
     /\ Len(updatesInFlight') > Len(updatesInFlight)
          => /\ validationMessage(draft) = NoMessage
             /\ updatesInFlight'[Len(updatesInFlight')].updates = draft]_vars

\* the delay 10 was typed and its save refused: the toast states the bound
C17_Witness ==
  /\ committed = LoadedSettings
  /\ draft = [LoadedSettings EXCEPT !.query_delay_ms = 10]
  /\ editToast = MsgDelayRange
  /\ updatesInFlight = <<>>
  /\ ~isSaving

\* C18: when update_settings answers the save of a valid draft, committed
\* settings and draft both become the response, also when it differs from the
\* draft sent, isDirty is false and the confirmation toast is shown.
C18_SaveAdoptsResponse ==
  [][\A i \in DOMAIN updatesInFlight :
       \A response \in ServerResponses(updatesInFlight[i].updates) :
         UpdateSettingsResolve(i, response)
           => /\ committed' = response
              /\ draft' = response
              /\ ~isDirty'
              /\ editToast' = ToastSaved]_vars

\* the hotkey "a " was saved and answered in its normal form "a"
C18_Witness ==
  /\ committed # NoSettings
  /\ committed.global_hotkey = <<"a">>
  /\ draft = committed
  /\ editToast = ToastSaved
  /\ ~isSaving
  /\ updatesInFlight = <<>>

\* C19: reset makes the draft equal the committed settings, leaves these
\* unchanged, shows the general section and leaves isDirty false; a reset in
\* the state a reset leaves changes nothing.
C19_ResetRestoresDraft ==
  [][handleReset
       => /\ draft' = committed
          /\ committed' = committed
          /\ activeSection' = "general"
          /\ ~isDirty'
          /\ editToast' = ToastReset /\ editToastTimerRef'
          /\ (/\ draft = committed
              /\ activeSection = "general"
              /\ editToast = ToastReset /\ editToastTimerRef)
               => UNCHANGED vars]_vars

\* a dirty draft was sent to update_settings and then reset while the call is
\* in flight
C19_Witness ==
  /\ committed # NoSettings
  /\ draft = committed
  /\ activeSection = "general"
  /\ editToast = ToastReset
  /\ Len(updatesInFlight) = 1
  /\ updatesInFlight[1].updates # committed

\* C20: isDirty is true exactly when one of the eleven AppSettings fields
\* differs between committed settings and draft, the save button is disabled
\* whenever isDirty is false or the validation message is not null, and no
\* update_settings call is started in such a state.
C20_SaveOnlyWhenDirtyAndValid ==
  [][/\ (committed # NoSettings /\ draft # NoSettings)
          => (isDirty <=> \E key \in DOMAIN LoadedSettings : committed[key] # draft[key])
     /\ (~isDirty \/ validationMessage(draft) # NoMessage) => SaveDisabled
     /\ Len(updatesInFlight') > Len(updatesInFlight)
          => (isDirty /\ validationMessage(draft) = NoMessage)]_vars

====
